---- MODULE Spec2Model ----
(***************************************************************************)
(* A model of cargo-px: the extraction of codegen units from a workspace,  *)
(* the choice of target packages, the augmented package graph, its cycle   *)
(* detection, the codegen plan and the sequential executor that compiles   *)
(* and runs each generator (or verifier), and the cargo px command line    *)
(* that runs them before it hands over to cargo.                           *)
(*                                                                         *)
(* Packages, package names and binary names are small positive integers;   *)
(* the name of package p is p.  0 stands for "none".                       *)
(***************************************************************************)
EXTENDS Integers, Sequences, FiniteSets, TLC

VARIABLES
    packages,        \* every package id of the metadata graph
    members,         \* the workspace members
    links,           \* dependency links <<from, to, dev_only>>
    build_targets,   \* build_targets[p]: the build targets [kind, name] of package p
    manifest,        \* manifest[p]: the px metadata of member p
    package_specs,   \* the -p/--package values found among the arguments
    cwd,             \* working directory, relative to the workspace root
    mode,            \* "codegen" or "verify"
    pc,              \* position of the invocation
    codegen_units,   \* the units extracted, then retained
    targets,         \* the target packages of the invocation
    dep_graph,       \* the augmented package graph
    plan,            \* the codegen plan
    idx,             \* position, in the plan, of the unit being executed
    cycles,          \* the cycles found in the augmented package graph
    live,            \* the child processes that are running
    log,             \* what the process runner was asked and answered, in order
    result,          \* [status, errors] of codegen or verify
    forwarded_args,  \* the arguments after `cargo px`, each [text, value]
    workspace_root,  \* the workspace root cargo metadata reports
    shown,           \* the status messages the shell has printed, in order
    exit_code        \* the exit code of cargo px, once it has exited

vars == <<packages, members, links, build_targets, manifest, package_specs, cwd, mode,
          pc, codegen_units, targets, dep_graph, cycles, plan, idx, live, log,
          result, forwarded_args, workspace_root, shown, exit_code>>

inputs == <<packages, members, links, build_targets, manifest, package_specs, cwd, mode,
            forwarded_args, workspace_root>>

----------------------------------------------------------------------------
(* Sequences *)

Last(s) == s[Len(s)]

Front(s) == SubSeq(s, 1, Len(s) - 1)

RECURSIVE Reverse(_)
Reverse(s) == IF s = <<>> THEN <<>> ELSE Append(Reverse(Tail(s)), Head(s))

Range(s) == {s[i] : i \in 1..Len(s)}

\* The elements of a set of integers, in ascending order.
RECURSIVE Ascending(_)
Ascending(S) ==
    IF S = {} THEN <<>>
    ELSE LET m == CHOOSE x \in S : \A y \in S : x <= y
         IN <<m>> \o Ascending(S \ {m})

\* The position of the first occurrence of x in s, 0 when there is none.
Position(s, x) ==
    IF \E i \in 1..Len(s) : s[i] = x
    THEN CHOOSE i \in 1..Len(s) : s[i] = x /\ \A j \in 1..(i - 1) : s[j] # x
    ELSE 0

----------------------------------------------------------------------------
(* Codegen units *)

NoPkg == 0

NoBinary == [name |-> 0, package_id |-> 0]

NoUnit == [package_metadata |-> 0, generator |-> NoBinary, verifier |-> NoBinary]

NoConfig == [kind |-> "none", generator_name |-> 0, verifier_name |-> 0]

\* The workspace members in the order the workspace iterates over them.
MemberSeq == Ascending(members)

\* Build targets: a binary or a target of another kind, with a name.
Bin(name) == [kind |-> "bin", name |-> name]
Lib(name) == [kind |-> "lib", name |-> name]

\* A scan for a build target of any kind with that name.
HasBinary_AnyKind(m, name) ==
    \E target \in build_targets[m] : target.name = name

\* The inner loop of the scan: some build target of member m is a binary
\* with that name.
HasBinary(m, name) ==
    \E target \in build_targets[m] : target.kind = "bin" /\ target.name = name

\* The workspace member, other than pkg, that defines a binary called name:
\* the scan goes over every member and keeps the last match.
RECURSIVE ScanMembers(_, _, _, _)
ScanMembers(ms, pkg, name, found) ==
    IF ms = <<>> THEN found
    ELSE LET m == Head(ms)
         IN IF m = pkg THEN ScanMembers(Tail(ms), pkg, name, found)
            ELSE IF HasBinary(m, name) THEN ScanMembers(Tail(ms), pkg, name, m)
            ELSE ScanMembers(Tail(ms), pkg, name, found)

FindBinaryPackage(pkg, name) == ScanMembers(MemberSeq, pkg, name, NoPkg)

MissingBinaryError(role, name, pkg) ==
    [kind |-> "MissingBinary", role |-> role, binary |-> name, package |-> pkg,
     step |-> "none", chain |-> <<>>]

\* CodegenUnit::new: [ok |-> TRUE, unit |-> u] or [ok |-> FALSE, error |-> e].
NewCodegenUnit(px_config, pkg) ==
    LET generator_package_id == FindBinaryPackage(pkg, px_config.generator_name)
        verifier_package_id == FindBinaryPackage(pkg, px_config.verifier_name)
    IN IF generator_package_id = NoPkg
       THEN [ok |-> FALSE, unit |-> NoUnit,
             error |-> MissingBinaryError("generator", px_config.generator_name, pkg)]
       ELSE IF px_config.verifier_name # 0 /\ verifier_package_id = NoPkg
       THEN [ok |-> FALSE, unit |-> NoUnit,
             error |-> MissingBinaryError("verifier", px_config.verifier_name, pkg)]
       ELSE [ok |-> TRUE,
             unit |-> [package_metadata |-> pkg,
                       generator |-> [name |-> px_config.generator_name,
                                      package_id |-> generator_package_id],
                       verifier |-> IF px_config.verifier_name = 0 THEN NoBinary
                                    ELSE [name |-> px_config.verifier_name,
                                          package_id |-> verifier_package_id]],
             error |-> MissingBinaryError("none", 0, 0)]

MalformedConfigError(pkg) ==
    [kind |-> "MalformedConfig", role |-> "none", binary |-> 0, package |-> pkg,
     step |-> "none", chain |-> <<>>]

\* An extraction that stops at the first member whose configuration is in
\* error.
RECURSIVE ExtractLoop_FirstError(_, _, _)
ExtractLoop_FirstError(ms, units, errors) ==
    IF ms = <<>> \/ errors # <<>> THEN [units |-> units, errors |-> errors]
    ELSE LET p == Head(ms)
             cfg == manifest[p]
         IN IF cfg.kind = "malformed"
            THEN ExtractLoop_FirstError(Tail(ms), units, Append(errors, MalformedConfigError(p)))
            ELSE IF cfg.kind = "none"
            THEN ExtractLoop_FirstError(Tail(ms), units, errors)
            ELSE LET r == NewCodegenUnit(cfg, p)
                 IN IF r.ok THEN ExtractLoop_FirstError(Tail(ms), Append(units, r.unit), errors)
                    ELSE ExtractLoop_FirstError(Tail(ms), units, Append(errors, r.error))

\* extract_codegen_units: every member is examined; the units and the errors
\* are collected, and the errors win.
RECURSIVE ExtractLoop(_, _, _)
ExtractLoop(ms, units, errors) ==
    IF ms = <<>> THEN [units |-> units, errors |-> errors]
    ELSE LET p == Head(ms)
             cfg == manifest[p]
         IN IF cfg.kind = "malformed"
            THEN ExtractLoop(Tail(ms), units, Append(errors, MalformedConfigError(p)))
            ELSE IF cfg.kind = "none"
            THEN ExtractLoop(Tail(ms), units, errors)
            ELSE LET r == NewCodegenUnit(cfg, p)
                 IN IF r.ok THEN ExtractLoop(Tail(ms), Append(units, r.unit), errors)
                    ELSE ExtractLoop(Tail(ms), units, Append(errors, r.error))

extract_codegen_units == ExtractLoop(MemberSeq, <<>>, <<>>)

----------------------------------------------------------------------------
(* Target packages *)

\* The manifest directory of a package, relative to the workspace root: the
\* directory of package 2 lies in the directory of package 1, the others lie
\* side by side.
pkg_path(p) == IF p = 2 THEN <<1, 2>> ELSE <<p>>

IsPrefix(p, q) == Len(p) <= Len(q) /\ SubSeq(q, 1, Len(p)) = p

\* A choice of the member whose directory leaves the longest suffix.
find_implicit_target_Farthest ==
    LET cands == {p \in members : IsPrefix(pkg_path(p), cwd)}
        count(p) == Len(cwd) - Len(pkg_path(p))
    IN IF cands = {} THEN NoPkg
       ELSE CHOOSE p \in cands :
               /\ \A q \in cands : count(p) >= count(q)
               /\ \A q \in cands : count(q) = count(p) => p <= q

\* find_implicit_target: the member whose directory is an ancestor of the
\* working directory and leaves the shortest suffix; NoPkg when there is none.
find_implicit_target ==
    LET cands == {p \in members : IsPrefix(pkg_path(p), cwd)}
        count(p) == Len(cwd) - Len(pkg_path(p))
    IN IF cands = {} THEN NoPkg
       ELSE CHOOSE p \in cands :
               /\ \A q \in cands : count(p) <= count(q)
               /\ \A q \in cands : count(q) = count(p) => p <= q

\* A resolution that leaves out the specs that are not a member's name.
RECURSIVE ResolveSpecs_SkipUnknown(_, _)
ResolveSpecs_SkipUnknown(specs, package_ids) ==
    IF specs = <<>> THEN package_ids
    ELSE IF Head(specs) \in members
         THEN ResolveSpecs_SkipUnknown(Tail(specs), Append(package_ids, Head(specs)))
         ELSE ResolveSpecs_SkipUnknown(Tail(specs), package_ids)

\* The ids of the specs, or <<>> as soon as one spec is not a member's name.
RECURSIVE ResolveSpecs(_, _)
ResolveSpecs(specs, package_ids) ==
    IF specs = <<>> THEN package_ids
    ELSE IF Head(specs) \in members
         THEN ResolveSpecs(Tail(specs), Append(package_ids, Head(specs)))
         ELSE <<>>

determine_targets ==
    IF package_specs = <<>>
    THEN IF find_implicit_target = NoPkg THEN <<>> ELSE <<find_implicit_target>>
    ELSE ResolveSpecs(package_specs, <<>>)

\* Whether package a depends, directly or not, on package b over the links of
\* the whole metadata graph, dev-only ones included; a package depends on
\* itself.
RECURSIVE ReachAll(_, _)
ReachAll(S, n) ==
    IF n = 0 THEN S
    ELSE ReachAll(S \cup {l[2] : l \in {k \in links : k[1] \in S}}, n - 1)

\* depends_on with the two packages exchanged.
depends_on_Reversed(a, b) == a \in ReachAll({b}, Cardinality(packages))

\* depends_on over the links that are not dev-only.
RECURSIVE ReachNonDev(_, _)
ReachNonDev(S, n) ==
    IF n = 0 THEN S
    ELSE ReachNonDev(S \cup {l[2] : l \in {k \in links : k[1] \in S /\ ~k[3]}}, n - 1)

depends_on_NonDev(a, b) == b \in ReachNonDev({a}, Cardinality(packages))

depends_on(a, b) == b \in ReachAll({a}, Cardinality(packages))

\* The retain of compute_filtered_codegen_plan.
Retained(unit, tgts) ==
    \E i \in 1..Len(tgts) :
        \/ unit.package_metadata = tgts[i]
        \/ depends_on(tgts[i], unit.package_metadata)

\* A filter that retains every unit.
FilterUnits_KeepAll(units, tgts) == units

FilterUnits(units, tgts) ==
    IF tgts = <<>> THEN units
    ELSE SelectSeq(units, LAMBDA u : Retained(u, tgts))

----------------------------------------------------------------------------
(* The augmented package graph *)

\* A graph is [nodes |-> the package id of each node index,
\*             edges |-> the edges, in the order they were added].
\* An edge is [from, to, kind, unit], from and to being node indices.
EmptyGraph == [nodes |-> <<>>, edges |-> <<>>]

NodeOf(nodes, pkg_id) == Position(nodes, pkg_id)

\* pkg_id2node_id lookup, adding the node when the package has none.
EnsureNode(nodes, pkg_id) ==
    IF NodeOf(nodes, pkg_id) # 0 THEN nodes ELSE Append(nodes, pkg_id)

find_edge(edges, a, b) ==
    IF \E i \in 1..Len(edges) : edges[i].from = a /\ edges[i].to = b
    THEN CHOOSE i \in 1..Len(edges) : edges[i].from = a /\ edges[i].to = b
    ELSE 0

\* update_edge that leaves the weight of an existing a -> b edge as it is.
update_edge_KeepWeight(edges, a, b, kind, unit) ==
    IF find_edge(edges, a, b) # 0 THEN edges
    ELSE Append(edges, [from |-> a, to |-> b, kind |-> kind, unit |-> unit])

\* StableGraph::update_edge: the weight of an existing a -> b edge is
\* replaced, otherwise the edge is added.
update_edge(edges, a, b, kind, unit) ==
    LET ix == find_edge(edges, a, b)
    IN IF ix # 0
       THEN [edges EXCEPT ![ix] = [from |-> a, to |-> b, kind |-> kind, unit |-> unit]]
       ELSE Append(edges, [from |-> a, to |-> b, kind |-> kind, unit |-> unit])

\* The links that start from pkg_id, each turned round.
ReverseLinks_Forward(pkg_id) ==
    LET tos == {l[2] : l \in {k \in links : k[1] = pkg_id}}
        link(t) == CHOOSE l \in links : l[1] = pkg_id /\ l[2] = t
    IN [i \in 1..Cardinality(tos) |->
          <<Ascending(tos)[i], pkg_id, link(Ascending(tos)[i])[3]>>]

\* The links that point to pkg_id, in the order the metadata yields them.
ReverseLinks(pkg_id) ==
    LET froms == {l[1] : l \in {k \in links : k[2] = pkg_id}}
        link(f) == CHOOSE l \in links : l[1] = f /\ l[2] = pkg_id
    IN [i \in 1..Cardinality(froms) |-> link(Ascending(froms)[i])]

\* A loop over the reverse links that follows the dev-only links as well.
RECURSIVE VisitLinks_FollowDev(_, _, _)
VisitLinks_FollowDev(st, node_id, pkg_deps) ==
    IF pkg_deps = <<>> THEN st
    ELSE LET dep_pkg_id == Head(pkg_deps)[1]
             nodes1 == EnsureNode(st.nodes, dep_pkg_id)
             dep_node_id == NodeOf(nodes1, dep_pkg_id)
             st1 == [nodes |-> nodes1,
                     edges |-> update_edge(st.edges, dep_node_id, node_id,
                                           "DependsOn", NoUnit),
                     to_be_visited |->
                         IF dep_pkg_id \notin st.processed
                         THEN Append(st.to_be_visited, dep_pkg_id)
                         ELSE st.to_be_visited,
                     processed |-> st.processed]
         IN VisitLinks_FollowDev(st1, node_id, Tail(pkg_deps))

\* The loop over the reverse links of one package.
\* st is [nodes, edges, to_be_visited, processed].
RECURSIVE VisitLinks(_, _, _)
VisitLinks(st, node_id, pkg_deps) ==
    IF pkg_deps = <<>> THEN st
    ELSE LET dep == Head(pkg_deps)
         IN IF dep[3]
            THEN VisitLinks(st, node_id, Tail(pkg_deps))
            ELSE LET dep_pkg_id == dep[1]
                     nodes1 == EnsureNode(st.nodes, dep_pkg_id)
                     dep_node_id == NodeOf(nodes1, dep_pkg_id)
                     st1 == [nodes |-> nodes1,
                             edges |-> update_edge(st.edges, dep_node_id, node_id,
                                                   "DependsOn", NoUnit),
                             to_be_visited |->
                                 IF dep_pkg_id \notin st.processed
                                 THEN Append(st.to_be_visited, dep_pkg_id)
                                 ELSE st.to_be_visited,
                             processed |-> st.processed]
                 IN VisitLinks(st1, node_id, Tail(pkg_deps))

\* The while loop that pops to_be_visited.
RECURSIVE VisitPackages(_)
VisitPackages(st) ==
    IF st.to_be_visited = <<>> THEN st
    ELSE LET pkg_id == Last(st.to_be_visited)
             popped == [st EXCEPT !.to_be_visited = Front(st.to_be_visited)]
         IN IF pkg_id \in st.processed THEN VisitPackages(popped)
            ELSE LET nodes1 == EnsureNode(st.nodes, pkg_id)
                     node_id == NodeOf(nodes1, pkg_id)
                     st1 == VisitLinks([popped EXCEPT !.nodes = nodes1], node_id,
                                       ReverseLinks(pkg_id))
                 IN VisitPackages([st1 EXCEPT !.processed = @ \cup {pkg_id}])

\* The loop that adds one IsGeneratedBy edge per codegen unit, from the node
\* of the unit's package to the node of its generator's package.
\* A loop that also adds an edge from the package of a unit to the package
\* of its verifier.
RECURSIVE AddGeneratedBy_AndVerifiedBy(_, _, _)
AddGeneratedBy_AndVerifiedBy(nodes, edges, units) ==
    IF units = <<>> THEN edges
    ELSE LET codegen_unit == Head(units)
             target_node_id == NodeOf(nodes, codegen_unit.generator.package_id)
             codegen_node_id == NodeOf(nodes, codegen_unit.package_metadata)
             generated == update_edge(edges, codegen_node_id, target_node_id,
                                      "IsGeneratedBy", codegen_unit)
         IN AddGeneratedBy_AndVerifiedBy(
               nodes,
               IF codegen_unit.verifier = NoBinary THEN generated
               ELSE update_edge(generated, codegen_node_id,
                                NodeOf(nodes, codegen_unit.verifier.package_id),
                                "IsGeneratedBy", codegen_unit),
               Tail(units))

RECURSIVE AddGeneratedBy(_, _, _)
AddGeneratedBy(nodes, edges, units) ==
    IF units = <<>> THEN edges
    ELSE LET codegen_unit == Head(units)
             target_node_id == NodeOf(nodes, codegen_unit.generator.package_id)
             codegen_node_id == NodeOf(nodes, codegen_unit.package_metadata)
         IN AddGeneratedBy(nodes,
                           update_edge(edges, codegen_node_id, target_node_id,
                                       "IsGeneratedBy", codegen_unit),
                           Tail(units))

\* AugmentedPackageGraph::new, up to the cycle check.
BuildDepGraph(units) ==
    LET st == VisitPackages([nodes |-> <<>>, edges |-> <<>>,
                             to_be_visited |-> MemberSeq, processed |-> {}])
    IN [nodes |-> st.nodes, edges |-> AddGeneratedBy(st.nodes, st.edges, units)]

----------------------------------------------------------------------------
(* Cycle detection *)

\* neighbors_directed(node, Outgoing): the targets of the edges that leave
\* node, the most recently added edge first.
Neighbors(g, node) ==
    LET out == SelectSeq(g.edges, LAMBDA e : e.from = node)
    IN Reverse([i \in 1..Len(out) |-> out[i].to])

\* edges_directed(node, Incoming): the most recently added edge first.
IncomingEdges(g, node) == Reverse(SelectSeq(g.edges, LAMBDA e : e.to = node))

\* The dfs of find_cycles and its loop over the neighbours of a node.
\* st is [visited, stack, cycles].
RECURSIVE dfs(_, _, _)
RECURSIVE dfs_neighbours(_, _, _)

\* A dfs that leaves the node on the stack when it returns.
dfs_NoPop(g, node_index, st) ==
    dfs_neighbours(g, Neighbors(g, node_index),
                   [visited |-> st.visited \cup {node_index},
                    stack |-> Append(st.stack, node_index),
                    cycles |-> st.cycles])

\* A loop that records the whole stack when it meets a node of the stack.
RECURSIVE dfs_neighbours_WholeStack(_, _, _)
dfs_neighbours_WholeStack(g, nbrs, st) ==
    IF nbrs = <<>> THEN st
    ELSE LET neighbour_index == Head(nbrs)
             cycle_start == Position(st.stack, neighbour_index)
             st1 == IF neighbour_index \notin st.visited
                    THEN dfs(g, neighbour_index, st)
                    ELSE IF cycle_start # 0
                    THEN [st EXCEPT !.cycles = Append(@, st.stack)]
                    ELSE st
         IN dfs_neighbours_WholeStack(g, Tail(nbrs), st1)

dfs_neighbours(g, nbrs, st) ==
    IF nbrs = <<>> THEN st
    ELSE LET neighbour_index == Head(nbrs)
             cycle_start == Position(st.stack, neighbour_index)
             st1 == IF neighbour_index \notin st.visited
                    THEN dfs(g, neighbour_index, st)
                    ELSE IF cycle_start # 0
                    THEN [st EXCEPT !.cycles =
                             Append(@, SubSeq(st.stack, cycle_start, Len(st.stack)))]
                    ELSE st
         IN dfs_neighbours(g, Tail(nbrs), st1)

dfs(g, node_index, st) ==
    LET st1 == [visited |-> st.visited \cup {node_index},
                stack |-> Append(st.stack, node_index),
                cycles |-> st.cycles]
        st2 == dfs_neighbours(g, Neighbors(g, node_index), st1)
    IN [st2 EXCEPT !.stack = Front(st2.stack)]

\* A search that starts from the first node only.
find_cycles_from_FirstOnly(g, node_index, st) ==
    IF node_index > Len(g.nodes) THEN st.cycles
    ELSE dfs(g, node_index, st).cycles

RECURSIVE find_cycles_from(_, _, _)
find_cycles_from(g, node_index, st) ==
    IF node_index > Len(g.nodes) THEN st.cycles
    ELSE find_cycles_from(g, node_index + 1,
                          IF node_index \notin st.visited THEN dfs(g, node_index, st)
                          ELSE st)

find_cycles(g) ==
    find_cycles_from(g, 1, [visited |-> {}, stack |-> <<>>, cycles |-> <<>>])

\* A line whose relationship is read from the edge that leaves the node.
CycleLine_Swapped(cycle, g, i) ==
    LET node_id == cycle[i]
        dependent_id == IF i = 1 THEN Last(cycle) ELSE cycle[i - 1]
        edge_id == find_edge(g.edges, node_id, dependent_id)
    IN <<g.nodes[dependent_id],
         IF edge_id = 0 THEN "panic"
         ELSE IF g.edges[edge_id].kind = "DependsOn" THEN "depends on"
         ELSE "is generated by",
         g.nodes[node_id]>>

\* cyclic_dependency_error: one line <<dependent, relationship, dependency>>
\* per node of the cycle; the relationship is "panic" when the graph has no
\* edge from the dependent to the node.
CycleLine(cycle, g, i) ==
    LET node_id == cycle[i]
        dependent_id == IF i = 1 THEN Last(cycle) ELSE cycle[i - 1]
        edge_id == find_edge(g.edges, dependent_id, node_id)
    IN <<g.nodes[dependent_id],
         IF edge_id = 0 THEN "panic"
         ELSE IF g.edges[edge_id].kind = "DependsOn" THEN "depends on"
         ELSE "is generated by",
         g.nodes[node_id]>>

cyclic_dependency_error(cycle, g) ==
    [kind |-> "CyclicDependency", role |-> "none", binary |-> 0, package |-> 0,
     step |-> "none",
     chain |-> [i \in 1..Len(cycle) |-> CycleLine(cycle, g, i)]]

----------------------------------------------------------------------------
(* The codegen plan *)

\* The nodes without incoming edges that have an outgoing edge.
Sources_WithEdges(g) ==
    Ascending({n \in 1..Len(g.nodes) :
                  /\ \A i \in 1..Len(g.edges) : g.edges[i].to # n
                  /\ \E i \in 1..Len(g.edges) : g.edges[i].from = n})

\* externals(Incoming): the nodes without incoming edge, by node index.
Sources(g) ==
    Ascending({n \in 1..Len(g.nodes) : \A i \in 1..Len(g.edges) : g.edges[i].to # n})

\* DfsPostOrder::move_to.  A traversal is [stack, discovered, finished].
move_to(d, start) == [d EXCEPT !.stack = <<start>>]

\* A traversal step that yields a node when it is discovered (pre-order).
RECURSIVE DfsNext_PreOrder(_, _)
DfsNext_PreOrder(g, d) ==
    IF d.stack = <<>> THEN [dfs |-> d, node |-> 0]
    ELSE LET nx == Last(d.stack)
             popped == [d EXCEPT !.stack = Front(d.stack)]
         IN IF nx \in d.discovered THEN DfsNext_PreOrder(g, popped)
            ELSE LET disc == d.discovered \cup {nx}
                 IN [dfs |-> [d EXCEPT !.discovered = disc,
                                       !.finished = @ \cup {nx},
                                       !.stack = Front(d.stack) \o
                                                 SelectSeq(Neighbors(g, nx),
                                                     LAMBDA succ : succ \notin disc)],
                     node |-> nx]

\* DfsPostOrder::next: [dfs |-> the traversal, node |-> the next node in
\* post-order, 0 when the traversal is over].
RECURSIVE DfsNext(_, _)
DfsNext(g, d) ==
    IF d.stack = <<>> THEN [dfs |-> d, node |-> 0]
    ELSE LET nx == Last(d.stack)
         IN IF nx \notin d.discovered
            THEN LET disc == d.discovered \cup {nx}
                 IN DfsNext(g, [d EXCEPT !.discovered = disc,
                                         !.stack = @ \o SelectSeq(Neighbors(g, nx),
                                                    LAMBDA succ : succ \notin disc)])
            ELSE LET popped == [d EXCEPT !.stack = Front(d.stack)]
                 IN IF nx \notin d.finished
                    THEN [dfs |-> [popped EXCEPT !.finished = @ \cup {nx}], node |-> nx]
                    ELSE DfsNext(g, popped)

\* The units on the outgoing IsGeneratedBy edges of a node.
UnitsGeneratedBy_Outgoing(g, node_index) ==
    LET es == SelectSeq(g.edges,
                        LAMBDA e : e.from = node_index /\ e.kind = "IsGeneratedBy")
    IN [i \in 1..Len(es) |-> es[i].unit]

\* The units on the incoming IsGeneratedBy edges of a node.
UnitsGeneratedBy(g, node_index) ==
    LET es == SelectSeq(IncomingEdges(g, node_index),
                        LAMBDA e : e.kind = "IsGeneratedBy")
    IN [i \in 1..Len(es) |-> es[i].unit]

RECURSIVE PlanLoop(_, _, _, _)
PlanLoop(g, d, sources, codegen_plan_) ==
    LET r == DfsNext(g, d)
    IN IF r.node # 0
       THEN PlanLoop(g, r.dfs, sources, codegen_plan_ \o UnitsGeneratedBy(g, r.node))
       ELSE IF sources # <<>>
       THEN PlanLoop(g, move_to(r.dfs, Last(sources)), Front(sources), codegen_plan_)
       ELSE codegen_plan_

\* AugmentedPackageGraph::codegen_plan; the graph has a source node.
codegen_plan(g) ==
    LET sources == Sources(g)
        source_seed == Last(sources)
    IN PlanLoop(g, [stack |-> <<source_seed>>, discovered |-> {}, finished |-> {}],
                Front(sources), <<>>)

----------------------------------------------------------------------------
(* The invocation *)

NoResult == [status |-> "none", errors |-> <<>>]

\* cargo px has not exited.
NoExit == -1

\* A forwarded argument: its text, and the package a -p flag names.
Arg(text, value) == [text |-> text, value |-> value]

Failed(errors) == [status |-> "err", errors |-> errors]

\* compute_filtered_codegen_plan, first statement: the units of the workspace,
\* or the errors of their extraction.
ExtractUnits ==
    /\ pc = "start"
    /\ LET r == extract_codegen_units
       IN IF r.errors # <<>>
          THEN /\ result' = Failed(r.errors)
               /\ pc' = "done"
               /\ UNCHANGED codegen_units
          ELSE /\ codegen_units' = r.units
               /\ pc' = "targets"
               /\ UNCHANGED result
    /\ UNCHANGED <<inputs, exit_code, shown, targets, dep_graph, cycles, plan, idx, live, log>>

DetermineTargets ==
    /\ pc = "targets"
    /\ targets' = determine_targets
    /\ pc' = "retain"
    /\ UNCHANGED <<inputs, exit_code, shown, codegen_units, dep_graph, cycles, plan, idx, live, log, result>>

RetainUnits ==
    /\ pc = "retain"
    /\ codegen_units' = FilterUnits(codegen_units, targets)
    /\ pc' = "graph"
    /\ UNCHANGED <<inputs, exit_code, shown, targets, dep_graph, cycles, plan, idx, live, log, result>>

\* AugmentedPackageGraph::new: the nodes and the edges.
BuildGraph ==
    /\ pc = "graph"
    /\ dep_graph' = BuildDepGraph(codegen_units)
    /\ pc' = "gate"
    /\ UNCHANGED <<inputs, exit_code, shown, codegen_units, targets, cycles, plan, idx, live, log, result>>

\* AugmentedPackageGraph::new: cyclic dependencies are not allowed.
CycleGate ==
    /\ pc = "gate"
    /\ cycles' = find_cycles(dep_graph)
    /\ IF cycles' # <<>>
       THEN /\ result' = Failed([i \in 1..Len(cycles') |->
                                   cyclic_dependency_error(cycles'[i], dep_graph)])
            /\ pc' = "done"
       ELSE /\ pc' = "plan"
            /\ UNCHANGED result
    /\ UNCHANGED <<inputs, exit_code, shown, codegen_units, targets, dep_graph, plan, idx, live, log>>

\* AugmentedPackageGraph::codegen_plan, which asserts that a source exists.
CodegenPlan ==
    /\ pc = "plan"
    /\ IF Sources(dep_graph) = <<>>
       THEN /\ result' = [status |-> "panic", errors |-> <<>>]
            /\ pc' = "done"
            /\ UNCHANGED <<plan, idx>>
       ELSE /\ plan' = codegen_plan(dep_graph)
            /\ idx' = 1
            /\ pc' = "loop"
            /\ UNCHANGED result
    /\ UNCHANGED <<inputs, exit_code, shown, codegen_units, targets, dep_graph, cycles, live, log>>

----------------------------------------------------------------------------
(* The executor *)

\* An executor that takes the verifier of a unit whenever it has one.
Invocation_VerifierIfAny(unit) ==
    IF mode = "codegen" /\ unit.verifier = NoBinary THEN unit.generator
    ELSE unit.verifier

\* The binary a unit is executed with: its generator, or its verifier.
Invocation(unit) == IF mode = "codegen" THEN unit.generator ELSE unit.verifier

Role == IF mode = "codegen" THEN "generator" ELSE "verifier"

\* A main that looks for --quiet only.
be_quiet_LongOnly ==
    \E i \in 1..Len(forwarded_args) : forwarded_args[i].text = "--quiet"

\* main: --quiet or -q is among the forwarded arguments.
be_quiet ==
    \E i \in 1..Len(forwarded_args) : forwarded_args[i].text \in {"--quiet", "-q"}

\* The verbosity of the shell: Shell::new makes it verbose, main makes it
\* quiet.
Verbosity == IF be_quiet THEN "Quiet" ELSE "Verbose"

\* Shell::status through Shell::print: a quiet shell prints nothing.
Status(printed, status, pkg) ==
    IF Verbosity = "Quiet" THEN printed
    ELSE Append(printed, [status |-> status, package |-> pkg])

\* What is printed before and after a step.
StatusBefore(step) ==
    IF step = "compile" THEN "Compiling"
    ELSE IF mode = "codegen" THEN "Generating" ELSE "Verifying"

StatusAfter(step) ==
    IF step = "compile" THEN "Compiled"
    ELSE IF mode = "codegen" THEN "Generated" ELSE "Verified"

\* A path: a root, the directories below it and a file name ("" for none).
NoPath == [root |-> "", dir |-> <<>>, file |-> ""]

\* The manifest path of a package, as the package metadata gives it.
manifest_path(p) == [root |-> workspace_root, dir |-> pkg_path(p), file |-> "Cargo.toml"]

\* Path::canonicalize of the workspace root: "/link" is a symbolic link to
\* "/ws".
canonicalize(root) == IF root = "/link" THEN "/ws" ELSE root

workspace_dir == [root |-> canonicalize(workspace_root), dir |-> <<>>, file |-> ""]

EnvVars == {"CARGO_PX_GENERATED_PKG_MANIFEST_PATH", "CARGO_PX_WORKSPACE_ROOT_DIR"}

\* The variables a new Command adds to the environment of its child: none.
NoEnv == [v \in EnvVars |-> NoPath]

\* A Command::env that keeps the value a variable already has.
SetEnv_KeepFirst(env, name, value) ==
    IF env[name] # NoPath THEN env ELSE [env EXCEPT ![name] = value]

\* Command::env: the variable is set, whatever it was.
SetEnv(env, name, value) == [env EXCEPT ![name] = value]

\* WorkspaceBinary::build_command.
build_command(binary) ==
    [subcommand |-> "build", package |-> binary.package_id, bin |-> binary.name,
     quiet |-> be_quiet, env |-> NoEnv]

\* WorkspaceBinary::run_command.
run_command(binary) ==
    [subcommand |-> "run", package |-> binary.package_id, bin |-> binary.name,
     quiet |-> be_quiet,
     env |-> SetEnv(NoEnv, "CARGO_PX_GENERATED_PKG_MANIFEST_PATH",
                    manifest_path(binary.package_id))]

\* A child process: cargo build/run --package <binary's package> --bin <name>
\* with the environment generate_crate and verify_crate add, on behalf of the
\* package being generated or verified.
Child(unit, step) ==
    LET cmd == IF step = "compile" THEN build_command(Invocation(unit))
               ELSE run_command(Invocation(unit))
        env1 == IF step = "compile" THEN cmd.env
                ELSE SetEnv(cmd.env, "CARGO_PX_GENERATED_PKG_MANIFEST_PATH",
                            manifest_path(unit.package_metadata))
    IN [step |-> step, role |-> Role, bin |-> cmd.bin, bin_package |-> cmd.package,
        package |-> unit.package_metadata, quiet |-> cmd.quiet,
        env |-> SetEnv(env1, "CARGO_PX_WORKSPACE_ROOT_DIR", workspace_dir),
        args |-> <<>>]

Event(ev, unit, step) == [ev |-> ev, child |-> Child(unit, step)]

ProcessFailure(unit, step) ==
    [kind |-> "ProcessFailure", role |-> Role, binary |-> Invocation(unit).name,
     package |-> unit.package_metadata, step |-> step, chain |-> <<>>]

MissingVerifierError(unit) ==
    [kind |-> "MissingVerifier", role |-> "verifier", binary |-> 0,
     package |-> unit.package_metadata, step |-> "none", chain |-> <<>>]

\* The for loop of codegen and of verify is over.
Finish ==
    /\ pc = "loop"
    /\ idx > Len(plan)
    /\ result' = [status |-> "ok", errors |-> <<>>]
    /\ pc' = "done"
    /\ UNCHANGED <<inputs, exit_code, shown, codegen_units, targets, dep_graph, cycles, plan, idx, live, log>>

\* A verify that goes on to the next unit when a unit has no verifier.
MissingVerifier_Skip ==
    /\ pc = "loop"
    /\ idx <= Len(plan)
    /\ mode = "verify"
    /\ plan[idx].verifier = NoBinary
    /\ idx' = idx + 1
    /\ UNCHANGED <<inputs, exit_code, shown, codegen_units, targets, dep_graph, cycles, plan, pc, live, log, result>>

\* A verify that looks for a unit without verifier before it walks the plan.
MissingVerifier_UpFront ==
    /\ pc = "loop"
    /\ idx = 1
    /\ mode = "verify"
    /\ \E k \in 1..Len(plan) :
          /\ plan[k].verifier = NoBinary
          /\ \A j \in 1..(k - 1) : plan[j].verifier # NoBinary
          /\ result' = Failed(<<MissingVerifierError(plan[k])>>)
    /\ pc' = "done"
    /\ UNCHANGED <<inputs, exit_code, shown, codegen_units, targets, dep_graph, cycles, plan, idx, live, log>>

\* verify: the unit has no verifier.
MissingVerifier ==
    /\ pc = "loop"
    /\ idx <= Len(plan)
    /\ mode = "verify"
    /\ plan[idx].verifier = NoBinary
    /\ result' = Failed(<<MissingVerifierError(plan[idx])>>)
    /\ pc' = "done"
    /\ UNCHANGED <<inputs, exit_code, shown, codegen_units, targets, dep_graph, cycles, plan, idx, live, log>>

\* A step that spawns its child and does not wait for it to exit.
Spawn_NoWait(at, step, waiting) ==
    /\ pc = at
    /\ idx <= Len(plan)
    /\ Invocation(plan[idx]) # NoBinary
    /\ live' = live \cup {Child(plan[idx], step)}
    /\ log' = Append(log, Event("spawn", plan[idx], step))
    /\ shown' = Status(shown, StatusBefore(step), plan[idx].package_metadata)
    /\ pc' = IF step = "compile" THEN "compiled" ELSE "loop"
    /\ idx' = IF step = "compile" THEN idx ELSE idx + 1
    /\ UNCHANGED <<inputs, exit_code, codegen_units, targets, dep_graph, cycles, plan, result>>

\* cmd.status() of a step is called: the child is spawned, or the spawn fails
\* and the step's error is returned.
Spawn(at, step, waiting) ==
    /\ pc = at
    /\ idx <= Len(plan)
    /\ Invocation(plan[idx]) # NoBinary
    /\ shown' = Status(shown, StatusBefore(step), plan[idx].package_metadata)
    /\ \E can_spawn \in BOOLEAN :
          IF can_spawn
          THEN /\ live' = live \cup {Child(plan[idx], step)}
               /\ log' = Append(log, Event("spawn", plan[idx], step))
               /\ pc' = waiting
               /\ UNCHANGED result
          ELSE /\ log' = Append(log, Event("spawn_failed", plan[idx], step))
               /\ result' = Failed(<<ProcessFailure(plan[idx], step)>>)
               /\ pc' = "done"
               /\ UNCHANGED live
    /\ UNCHANGED <<inputs, exit_code, codegen_units, targets, dep_graph, cycles, plan, idx>>

\* A step that is spawned once more when its child exits with the first
\* failure of the invocation.
Exit_RetryOnce(waiting, step, after, next_idx) ==
    /\ pc = waiting
    /\ \E success \in BOOLEAN :
          /\ live' = live \ {Child(plan[idx], step)}
          /\ IF success
             THEN /\ log' = Append(log, Event("exit_ok", plan[idx], step))
                  /\ shown' = Status(shown, StatusAfter(step), plan[idx].package_metadata)
                  /\ pc' = after
                  /\ idx' = next_idx
                  /\ UNCHANGED result
             ELSE /\ log' = Append(log, Event("exit_failed", plan[idx], step))
                  /\ IF \A i \in 1..Len(log) : log[i].ev # "exit_failed"
                     THEN /\ pc' = IF step = "compile" THEN "loop" ELSE "compiled"
                          /\ UNCHANGED result
                     ELSE /\ result' = Failed(<<ProcessFailure(plan[idx], step)>>)
                          /\ pc' = "done"
                  /\ UNCHANGED <<idx, shown>>
    /\ UNCHANGED <<inputs, exit_code, codegen_units, targets, dep_graph, cycles, plan>>

\* A step that goes on whatever the exit status of its child.
Exit_IgnoreStatus(waiting, step, after, next_idx) ==
    /\ pc = waiting
    /\ \E success \in BOOLEAN :
          /\ live' = live \ {Child(plan[idx], step)}
          /\ log' = Append(log, Event(IF success THEN "exit_ok" ELSE "exit_failed",
                                      plan[idx], step))
          /\ pc' = after
          /\ idx' = next_idx
          /\ shown' = Status(shown, StatusAfter(step), plan[idx].package_metadata)
          /\ UNCHANGED result
    /\ UNCHANGED <<inputs, exit_code, codegen_units, targets, dep_graph, cycles, plan>>

\* cmd.status() of a step returns: the child has exited, and a status that is
\* not a success is the step's error.
Exit(waiting, step, after, next_idx) ==
    /\ pc = waiting
    /\ \E success \in BOOLEAN :
          /\ live' = live \ {Child(plan[idx], step)}
          /\ IF success
             THEN /\ log' = Append(log, Event("exit_ok", plan[idx], step))
                  /\ shown' = Status(shown, StatusAfter(step), plan[idx].package_metadata)
                  /\ pc' = after
                  /\ idx' = next_idx
                  /\ UNCHANGED result
             ELSE /\ log' = Append(log, Event("exit_failed", plan[idx], step))
                  /\ result' = Failed(<<ProcessFailure(plan[idx], step)>>)
                  /\ pc' = "done"
                  /\ UNCHANGED <<idx, shown>>
    /\ UNCHANGED <<inputs, exit_code, codegen_units, targets, dep_graph, cycles, plan>>

SpawnCompile == Spawn("loop", "compile", "compiling")

ExitCompile == Exit("compiling", "compile", "compiled", idx)

SpawnRun == Spawn("compiled", "run", "running")

ExitRun == Exit("running", "run", "loop", idx + 1)

----------------------------------------------------------------------------
(* Workspaces *)

NPkgs == 4
MaxLinks == 2
MaxUnits == 3
MaxSpecs == 1

AllPkgs == 1..NPkgs

Pairs == {pr \in AllPkgs \X AllPkgs : pr[1] # pr[2]}

RECURSIVE ReachVia(_, _, _)
ReachVia(E, S, n) ==
    IF n = 0 THEN S
    ELSE ReachVia(E, S \cup {e[2] : e \in {k \in E : k[1] \in S}}, n - 1)

\* No element depends on itself through the pairs of E.
Acyclic(E, n) ==
    \A e \in E : e[1] \notin ReachVia(E, {e[2]}, n)

\* The sets of at most MaxLinks non-dev links without a cycle.
NormalLinkSets ==
    {{<<e[1], e[2], FALSE>> : e \in E} :
        E \in {F \in SUBSET Pairs : Cardinality(F) <= MaxLinks /\ Acyclic(F, NPkgs)}}

\* The sets of at most MaxLinks links, dev-only or not, whose non-dev links
\* form no cycle.
LinkSets ==
    UNION {{{<<e[1], e[2], e \in D>> : e \in E} : D \in SUBSET E} :
              E \in {F \in SUBSET Pairs : Cardinality(F) <= MaxLinks}}

NonDevAcyclic(L) == Acyclic({<<l[1], l[2]>> : l \in {k \in L : ~k[3]}}, NPkgs)

Px(generator_name, verifier_name) ==
    [kind |-> "px", generator_name |-> generator_name, verifier_name |-> verifier_name]

\* A manifest per member, from the generator (0: no px metadata) and the
\* verifier (0: none) each member names.
ManifestOf(gen, ver) ==
    [p \in AllPkgs |-> IF gen[p] = 0 THEN NoConfig ELSE Px(gen[p], ver[p])]

\* At most MaxUnits members name a generator: the binary of another member.
GeneratorChoices ==
    {gen \in [AllPkgs -> 0..NPkgs] :
        /\ \A p \in AllPkgs : gen[p] # p
        /\ Cardinality({p \in AllPkgs : gen[p] # 0}) <= MaxUnits}

\* The members below NPkgs may name the binary of member NPkgs as generator.
HostedChoices ==
    {gen \in [AllPkgs -> {0, NPkgs}] : gen[NPkgs] = 0}

NoVerifiers == [p \in AllPkgs |-> 0]

\* Strictly ascending sequences of at most n members.
RECURSIVE AscendingSeqs(_)
AscendingSeqs(n) ==
    IF n = 0 THEN {<<>>}
    ELSE LET shorter == AscendingSeqs(n - 1)
         IN shorter \cup
            {Append(s, p) : s \in {t \in shorter : Len(t) = n - 1}, p \in AllPkgs}

SpecLists ==
    {s \in AscendingSeqs(MaxSpecs) : \A i \in 1..(Len(s) - 1) : s[i] < s[i + 1]}
        \cup {<<0>>}

\* The -p flags that select the packages of specs.
PackageArgs(specs) == [i \in 1..Len(specs) |-> Arg("-p", specs[i])]

\* The state in which compute_filtered_codegen_plan is entered.
Fresh ==
    /\ pc = "start"
    /\ codegen_units = <<>>
    /\ targets = <<>>
    /\ dep_graph = EmptyGraph
    /\ cycles = <<>>
    /\ plan = <<>>
    /\ idx = 0
    /\ live = {}
    /\ log = <<>>
    /\ result = NoResult
    /\ shown = <<>>
    /\ exit_code = NoExit

\* Every member defines one binary, named after the member.
Workspace ==
    /\ packages = AllPkgs
    /\ members = AllPkgs
    /\ build_targets = [p \in AllPkgs |-> {Bin(p)}]

\* cargo px build, from the workspace root, which is no package's directory:
\* every workspace with at most MaxLinks non-dev links and at most MaxUnits
\* units.
InitPlanning ==
    /\ Workspace
    /\ links \in NormalLinkSets
    /\ \E gen \in GeneratorChoices : manifest = ManifestOf(gen, NoVerifiers)
    /\ package_specs = <<>>
    /\ cwd = <<>>
    /\ mode = "codegen"
    /\ forwarded_args = <<Arg("build", 0)>>
    /\ workspace_root = "/ws"
    /\ Fresh

\* cargo px build and cargo px verify-freshness on workspaces without links
\* whose units, with or without a verifier, are produced by member NPkgs.
InitExec ==
    /\ Workspace
    /\ links = {}
    /\ \E gen \in HostedChoices, ver \in HostedChoices :
          /\ \A p \in AllPkgs : ver[p] # 0 => gen[p] # 0
          /\ manifest = ManifestOf(gen, ver)
    /\ package_specs = <<>>
    /\ cwd = <<>>
    /\ mode \in {"codegen", "verify"}
    /\ forwarded_args = <<Arg(IF mode = "codegen" THEN "build" ELSE "verify-freshness", 0)>>
    /\ workspace_root = "/ws"
    /\ Fresh

\* cargo px build with -p flags, or from the src directory of member 1, on
\* workspaces whose units are produced by member NPkgs, with at most MaxLinks
\* links, dev-only or not.
InitScoped ==
    /\ Workspace
    /\ links \in {L \in LinkSets : NonDevAcyclic(L)}
    /\ \E gen \in HostedChoices : manifest = ManifestOf(gen, NoVerifiers)
    /\ \/ package_specs \in SpecLists /\ cwd = <<>>
       \/ package_specs = <<>> /\ cwd = <<1, 0>>
    /\ mode = "codegen"
    /\ forwarded_args = <<Arg("build", 0)>> \o PackageArgs(package_specs)
    /\ workspace_root = "/ws"
    /\ Fresh

Init == InitPlanning \/ InitExec

Next ==
    \/ ExtractUnits
    \/ DetermineTargets
    \/ RetainUnits
    \/ BuildGraph
    \/ CycleGate
    \/ CodegenPlan
    \/ Finish
    \/ MissingVerifier
    \/ SpawnCompile
    \/ ExitCompile
    \/ SpawnRun
    \/ ExitRun

Spec == Init /\ [][Next]_vars

InitScopedOrExec == InitScoped \/ InitExec

SpecScoped == InitScopedOrExec /\ [][Next]_vars

----------------------------------------------------------------------------
(* Workspaces whose configuration may be in error *)

Malformed == [kind |-> "malformed", generator_name |-> 0, verifier_name |-> 0]

\* The name of a binary that no package defines.
NoSuchBin == NPkgs + 1

\* What the manifest of member p may hold: nothing for cargo px, metadata
\* that cannot be deserialized, or a generator, with or without a verifier,
\* each being the binary of member NPkgs, a binary that does not exist, or,
\* for the generator, the binary of p itself.
ConfigChoices(p) ==
    {NoConfig, Malformed, Px(NPkgs, 0), Px(NPkgs, NPkgs), Px(NoSuchBin, 0),
     Px(NPkgs, NoSuchBin), Px(NoSuchBin, NoSuchBin), Px(p, 0)}

Manifests ==
    {m \in [AllPkgs -> UNION {ConfigChoices(p) : p \in AllPkgs}] :
        /\ m[NPkgs] = NoConfig
        /\ \A p \in AllPkgs \ {NPkgs} : m[p] \in ConfigChoices(p)}

\* cargo px build and cargo px verify-freshness on workspaces without links
\* whose members below NPkgs have any of these manifests.
InitConfig ==
    /\ Workspace
    /\ links = {}
    /\ manifest \in Manifests
    /\ package_specs = <<>>
    /\ cwd = <<>>
    /\ mode \in {"codegen", "verify"}
    /\ forwarded_args = <<Arg(IF mode = "codegen" THEN "build" ELSE "verify-freshness", 0)>>
    /\ workspace_root = "/ws"
    /\ Fresh

SpecConfig == InitConfig /\ [][Next]_vars

----------------------------------------------------------------------------
(* Workspaces with packages that are not members *)

NMembers == 2

\* Members may name the binary of another member as generator.
MemberGenerators ==
    {gen \in [AllPkgs -> 0..NMembers] :
        \A p \in AllPkgs : gen[p] # p /\ (p > NMembers => gen[p] = 0)}

\* -p values: names of members, the name of no package (0) and the name of a
\* package that is not a member.
SpecChoices ==
    {<<1>>, <<2>>, <<1, 2>>, <<0>>, <<NPkgs>>, <<1, 0>>, <<0, 1>>, <<2, NPkgs>>}

\* Working directories: the workspace root, the directories of the members
\* and of a package that is not a member, and directories below them that
\* are no package's (0).
CwdChoices == {<<>>, <<0>>, <<1>>, <<1, 0>>, <<1, 2>>, <<1, 2, 0>>, <<NPkgs>>}

\* cargo px build, with -p flags or from some directory, on workspaces whose
\* members are the first NMembers packages, with at most MaxLinks links,
\* dev-only or not, between any two packages.
InitExternal ==
    /\ packages = AllPkgs
    /\ members = 1..NMembers
    /\ build_targets = [p \in AllPkgs |-> {Bin(p)}]
    /\ links \in {L \in LinkSets : NonDevAcyclic(L)}
    /\ \E gen \in MemberGenerators : manifest = ManifestOf(gen, NoVerifiers)
    /\ \/ package_specs \in SpecChoices /\ cwd = <<>>
       \/ package_specs = <<>> /\ cwd \in CwdChoices
    /\ mode = "codegen"
    /\ forwarded_args = <<Arg("build", 0)>> \o PackageArgs(package_specs)
    /\ workspace_root = "/ws"
    /\ Fresh

InitExternalOrExec == InitExternal \/ InitExec

SpecExternal == InitExternalOrExec /\ [][Next]_vars

----------------------------------------------------------------------------
(* The command line *)

\* The commands without their one-letter aliases.
CodegenVerbs_NoAliases == {"build", "test", "check", "run", "doc", "bench", "publish"}

\* The cargo commands whose outcome code generation may affect.
CodegenVerbs ==
    {"build", "b", "test", "t", "check", "c", "run", "r", "doc", "d", "bench", "publish"}

MetadataError ==
    [kind |-> "Metadata", role |-> "none", binary |-> 0, package |-> 0,
     step |-> "none", chain |-> <<>>]

\* The exit codes of the delegated command go from 0 to MaxExitCode.
MaxExitCode == 2

\* The exit code of a process that panicked.
PanicExitCode == 101

\* The status of a child that a signal terminated: it has no exit code.
Killed == -2

unwrap_or(code, default) == IF code = Killed THEN default ELSE code

\* The delegated command: cargo with the forwarded arguments.
DelegateChild ==
    [step |-> "delegate", role |-> "cargo", bin |-> 0, bin_package |-> 0,
     package |-> 0, quiet |-> be_quiet, env |-> NoEnv, args |-> forwarded_args]

\* main, on the first forwarded argument: verify, codegen, or neither.
Dispatch ==
    /\ pc = "main"
    /\ IF forwarded_args = <<>>
       THEN pc' = "delegate" /\ UNCHANGED mode
       ELSE LET cargo_command == forwarded_args[1].text
            IN IF cargo_command = "verify-freshness"
               THEN pc' = "metadata" /\ mode' = "verify"
               ELSE IF cargo_command \in CodegenVerbs
               THEN pc' = "metadata" /\ mode' = "codegen"
               ELSE pc' = "delegate" /\ UNCHANGED mode
    /\ UNCHANGED <<packages, members, links, build_targets, manifest, package_specs, cwd,
                   forwarded_args, workspace_root, codegen_units, targets, dep_graph,
                   cycles, plan, idx, live, log, result, shown, exit_code>>

\* package_graph, the first statement of codegen and of verify: cargo
\* metadata is executed and its output read, or the call fails.
PackageGraph ==
    /\ pc = "metadata"
    /\ \E ok \in BOOLEAN :
          IF ok
          THEN /\ shown' = Status(Status(shown, "Computing", 0), "Computed", 0)
               /\ pc' = "start"
               /\ UNCHANGED result
          ELSE /\ shown' = Status(shown, "Computing", 0)
               /\ result' = Failed(<<MetadataError>>)
               /\ pc' = "done"
    /\ UNCHANGED <<inputs, exit_code, codegen_units, targets, dep_graph, cycles, plan,
                   idx, live, log>>

\* A main that goes on to the delegated command after a verification.
Return_DelegateAfterVerify ==
    /\ pc = "done"
    /\ IF result.status = "panic"
       THEN exit_code' = PanicExitCode /\ pc' = "exited"
       ELSE IF result.status = "err"
       THEN exit_code' = 1 /\ pc' = "exited"
       ELSE pc' = "delegate" /\ UNCHANGED exit_code
    /\ UNCHANGED <<inputs, shown, codegen_units, targets, dep_graph, cycles, plan, idx,
                   live, log, result>>

\* main, when verify or codegen has returned: their errors are displayed and
\* the exit code is 1; a verification that found no error exits with 0; a
\* generation that found none goes on to the delegated command.
Return ==
    /\ pc = "done"
    /\ IF result.status = "panic"
       THEN exit_code' = PanicExitCode /\ pc' = "exited"
       ELSE IF result.status = "err"
       THEN exit_code' = 1 /\ pc' = "exited"
       ELSE IF mode = "verify"
       THEN exit_code' = 0 /\ pc' = "exited"
       ELSE pc' = "delegate" /\ UNCHANGED exit_code
    /\ UNCHANGED <<inputs, shown, codegen_units, targets, dep_graph, cycles, plan, idx,
                   live, log, result>>

\* main: codegen has returned Ok.
has_codegened == mode = "codegen" /\ result.status = "ok"

\* main: cargo is run with the forwarded arguments; a spawn that fails is an
\* error, and the exit code is 1.
SpawnDelegate ==
    /\ pc = "delegate"
    /\ shown' = IF has_codegened /\ forwarded_args # <<>>
                THEN Status(shown, "Invoking", 0)
                ELSE shown
    /\ \E can_spawn \in BOOLEAN :
          IF can_spawn
          THEN /\ live' = live \cup {DelegateChild}
               /\ log' = Append(log, [ev |-> "spawn", child |-> DelegateChild])
               /\ pc' = "delegating"
               /\ UNCHANGED exit_code
          ELSE /\ log' = Append(log, [ev |-> "spawn_failed", child |-> DelegateChild])
               /\ exit_code' = 1
               /\ pc' = "exited"
               /\ UNCHANGED live
    /\ UNCHANGED <<inputs, codegen_units, targets, dep_graph, cycles, plan, idx, result>>

\* An exit that reports 0 whatever the delegated command reported.
ExitDelegate_Zero ==
    /\ pc = "delegating"
    /\ \E status \in (0..MaxExitCode) \cup {Killed} :
          /\ live' = live \ {DelegateChild}
          /\ log' = Append(log, [ev |-> IF status = 0 THEN "exit_ok" ELSE "exit_failed",
                                  child |-> DelegateChild, status |-> status])
          /\ exit_code' = 0
          /\ pc' = "exited"
    /\ UNCHANGED <<inputs, shown, codegen_units, targets, dep_graph, cycles, plan, idx,
                   result>>

\* main: the delegated command has exited, and cargo px exits with its exit
\* code, or with 1 when it has none.
ExitDelegate ==
    /\ pc = "delegating"
    /\ \E status \in (0..MaxExitCode) \cup {Killed} :
          /\ live' = live \ {DelegateChild}
          /\ log' = Append(log, [ev |-> IF status = 0 THEN "exit_ok" ELSE "exit_failed",
                                  child |-> DelegateChild, status |-> status])
          /\ exit_code' = unwrap_or(status, 1)
          /\ pc' = "exited"
    /\ UNCHANGED <<inputs, shown, codegen_units, targets, dep_graph, cycles, plan, idx,
                   result>>

\* The verbs of the command lines: the cargo commands that build, with
\* their aliases, verify-freshness, and two commands that build nothing.
Verbs ==
    {"build", "b", "test", "t", "check", "c", "run", "r", "doc", "d", "bench", "publish",
     "verify-freshness", "clean", "fmt"}

QuietFlags == {"--quiet", "-q"}

\* cargo px, cargo px <verb>, cargo px <verb> <quiet flag> and
\* cargo px <quiet flag> <verb>.
CommandLines ==
    {<<>>}
      \cup {<<Arg(v, 0)>> : v \in Verbs}
      \cup {<<Arg(v, 0), Arg(q, 0)>> : v \in Verbs, q \in QuietFlags}
      \cup {<<Arg(q, 0), Arg(v, 0)>> : v \in {"build", "verify-freshness"}, q \in QuietFlags}

\* cargo px with any of the command lines, from the workspace root, on the
\* workspaces of InitExec, the root being reported as it is or through a
\* symbolic link.
InitMain ==
    /\ Workspace
    /\ links = {}
    /\ \E gen \in HostedChoices, ver \in HostedChoices :
          /\ \A p \in AllPkgs : ver[p] # 0 => gen[p] # 0
          /\ manifest = ManifestOf(gen, ver)
    /\ package_specs = <<>>
    /\ cwd = <<>>
    /\ mode = "none"
    /\ forwarded_args \in CommandLines
    /\ workspace_root \in {"/ws", "/link"}
    /\ pc = "main"
    /\ codegen_units = <<>>
    /\ targets = <<>>
    /\ dep_graph = EmptyGraph
    /\ cycles = <<>>
    /\ plan = <<>>
    /\ idx = 0
    /\ live = {}
    /\ log = <<>>
    /\ result = NoResult
    /\ shown = <<>>
    /\ exit_code = NoExit

NextMain ==
    \/ Dispatch
    \/ PackageGraph
    \/ ExtractUnits
    \/ DetermineTargets
    \/ RetainUnits
    \/ BuildGraph
    \/ CycleGate
    \/ CodegenPlan
    \/ Finish
    \/ MissingVerifier
    \/ SpawnCompile
    \/ ExitCompile
    \/ SpawnRun
    \/ ExitRun
    \/ Return
    \/ SpawnDelegate
    \/ ExitDelegate

SpecMain == InitMain /\ [][NextMain]_vars

----------------------------------------------------------------------------
(* find_cycles on any directed graph *)

NNodes == 4
MaxEdges == 4

\* The sequences of at most n distinct pairs of nodes, a node paired with
\* itself included.
RECURSIVE EdgeLists(_)
EdgeLists(n) ==
    IF n = 0 THEN {<<>>}
    ELSE LET shorter == EdgeLists(n - 1)
         IN shorter \cup
            {Append(s, pr) : s \in {t \in shorter : Len(t) = n - 1},
                             pr \in (1..NNodes) \X (1..NNodes)}

DistinctEdgeLists == {s \in EdgeLists(MaxEdges) : Cardinality(Range(s)) = Len(s)}

\* A graph of NNodes nodes, node i being package i, about to be checked for
\* cycles: its edges are any MaxEdges distinct edges, added in any order.
InitCycles ==
    /\ packages = 1..NNodes
    /\ members = 1..NNodes
    /\ build_targets = [p \in 1..NNodes |-> {Bin(p)}]
    /\ links = {}
    /\ manifest = [p \in 1..NNodes |-> NoConfig]
    /\ package_specs = <<>>
    /\ cwd = <<>>
    /\ mode = "codegen"
    /\ pc = "gate"
    /\ codegen_units = <<>>
    /\ targets = <<>>
    /\ \E s \in DistinctEdgeLists :
          dep_graph = [nodes |-> [i \in 1..NNodes |-> i],
                       edges |-> [i \in 1..Len(s) |->
                                    [from |-> s[i][1], to |-> s[i][2],
                                     kind |-> "DependsOn", unit |-> NoUnit]]]
    /\ cycles = <<>>
    /\ plan = <<>>
    /\ idx = 0
    /\ live = {}
    /\ log = <<>>
    /\ result = NoResult
    /\ forwarded_args = <<Arg("build", 0)>>
    /\ workspace_root = "/ws"
    /\ shown = <<>>
    /\ exit_code = NoExit

NextCycles == CycleGate

SpecCycles == InitCycles /\ [][NextCycles]_vars

----------------------------------------------------------------------------
(* Properties of the plan *)

\* The edges of a graph as pairs of node indices.
EdgePairs(g) == {<<g.edges[i].from, g.edges[i].to>> : i \in 1..Len(g.edges)}

GraphAcyclic(g) == Acyclic(EdgePairs(g), Len(g.nodes))

\* The packages that package p reaches along the edges of g, p included.
PkgReach(g, p) ==
    {g.nodes[n] : n \in ReachVia(EdgePairs(g), {NodeOf(g.nodes, p)}, Len(g.nodes))}

\* The packages that package p reaches along at least one edge of g.
PkgReachPlus(g, p) ==
    {g.nodes[n] : n \in ReachVia(EdgePairs(g),
                                 {e[2] : e \in {k \in EdgePairs(g) :
                                                   k[1] = NodeOf(g.nodes, p)}},
                                 Len(g.nodes))}

\* codegen_plan has returned.
Planned == idx > 0

Target(u) == u.package_metadata

GeneratorPkg(u) == u.generator.package_id

\* C1: when the augmented graph is acyclic a plan is produced (no cycle is
\* reported and the source assertion holds), and the plan holds every unit
\* handed to the scheduler exactly once.
C1_PlanHasEveryUnitOnce ==
    /\ result.status # "panic"
    /\ (pc = "done" /\ dep_graph # EmptyGraph /\ GraphAcyclic(dep_graph)) => Planned
    /\ Planned =>
          /\ Len(plan) = Len(codegen_units)
          /\ \A i \in 1..Len(codegen_units) :
                Cardinality({j \in 1..Len(plan) : plan[j] = codegen_units[i]}) = 1

\* A plan of several units, one of whose packages also has a non-dev link to
\* the package of its own generator.
C1_Witness ==
    /\ Planned
    /\ Len(plan) >= 2
    /\ \E j \in 1..Len(plan) : <<Target(plan[j]), GeneratorPkg(plan[j]), FALSE>> \in links

\* C2: every other unit whose package the generator package of a unit reaches
\* along the edges of the graph comes earlier in the plan than that unit.
C2_GeneratorPrerequisitesFirst ==
    Planned =>
       \A j, k \in 1..Len(plan) :
          (k # j /\ Target(plan[k]) \in PkgReach(dep_graph, GeneratorPkg(plan[j])))
             => k < j

\* A plan in which the generator package of one unit reaches the package of
\* another unit along more than one edge.
C2_Witness ==
    /\ Planned
    /\ \E j, k \in 1..Len(plan) :
          /\ k # j
          /\ Target(plan[k]) # GeneratorPkg(plan[j])
          /\ Target(plan[k]) \in PkgReach(dep_graph, GeneratorPkg(plan[j]))

\* C3, as claimed: when the package of unit U1 reaches the generator package
\* of another unit U2 along the edges of the graph, U2 comes before U1.
C3_TargetReachesGenerator ==
    Planned =>
       \A j, k \in 1..Len(plan) :
          (k # j /\ GeneratorPkg(plan[k]) \in PkgReachPlus(dep_graph, Target(plan[j])))
             => k < j

\* C3, amended: when the generator package of unit U1 reaches the generator
\* package of another unit U2 along at least one edge, U2 comes before U1.
C3_GeneratorReachesGenerator ==
    Planned =>
       \A j, k \in 1..Len(plan) :
          (k # j /\ GeneratorPkg(plan[k]) \in PkgReachPlus(dep_graph, GeneratorPkg(plan[j])))
             => k < j

\* A plan in which the generator package of one unit reaches the generator
\* package of another.
C3_Witness ==
    /\ Planned
    /\ \E j, k \in 1..Len(plan) :
          /\ k # j
          /\ GeneratorPkg(plan[k]) \in PkgReachPlus(dep_graph, GeneratorPkg(plan[j]))

----------------------------------------------------------------------------
(* Cycle rejection *)

\* The cycle check of AugmentedPackageGraph::new has been made.
PastGate == pc \notin {"start", "targets", "retain", "graph", "gate"}

\* The packages a rendered chain names.
ChainNames(chain) == {chain[i][1] : i \in 1..Len(chain)} \cup {chain[i][3] : i \in 1..Len(chain)}

ChainHas(chain, relationship) == \E i \in 1..Len(chain) : chain[i][2] = relationship

\* Package a is the package of a unit handed to the graph, the generator of
\* the unit lives in package b, and b has a non-dev link to a.
GeneratedByDependent(a, b) ==
    /\ \E i \in 1..Len(codegen_units) :
          Target(codegen_units[i]) = a /\ GeneratorPkg(codegen_units[i]) = b
    /\ <<b, a, FALSE>> \in links

Rejected ==
    /\ result.status = "err"
    /\ result.errors # <<>>
    /\ \A i \in 1..Len(result.errors) : result.errors[i].kind = "CyclicDependency"
    /\ plan = <<>>
    /\ idx = 0
    /\ log = <<>>

Relationship(x, y) ==
    IF \E i \in 1..Len(codegen_units) :
          Target(codegen_units[i]) = x /\ GeneratorPkg(codegen_units[i]) = y
    THEN "is generated by"
    ELSE "depends on"

----------------------------------------------------------------------------
(* Cycle detection *)

----------------------------------------------------------------------------
(* Target filtering *)

\* The units the workspace declares.
Declared == Range(extract_codegen_units.units)

Extracted == pc # "start" /\ extract_codegen_units.errors = <<>>

\* The retain of compute_filtered_codegen_plan has been made.
PastRetain == Extracted /\ pc \notin {"targets", "retain"}

LinkPairs == {<<l[1], l[2]>> : l \in links}

\* The packages p depends on through links of any kind, p included.
Dependencies(p) == ReachVia(LinkPairs, {p}, Cardinality(packages))

Scope == Range(targets)

\* The package of the unit is a scope member or a dependency of one.
InScope(u) == \E t \in Scope : Target(u) \in Dependencies(t)

UnitsOnEdges(g) ==
    {g.edges[i].unit : i \in {k \in 1..Len(g.edges) : g.edges[k].kind = "IsGeneratedBy"}}

C7_ScopeAndItsDependencies ==
    (Planned /\ targets # <<>>) =>
       /\ Range(plan) = {u \in Declared : InScope(u)}
       /\ \A i \in 1..Len(log) :
             \E u \in Declared : InScope(u) /\ log[i].child.package = Target(u)

\* Package 1 depends on 2, 2 on 3, each has a unit, and the scope is 1: the
\* plan has the three units.
C7_Witness ==
    /\ Planned
    /\ targets = <<1>>
    /\ {<<1, 2, FALSE>>, <<2, 3, FALSE>>} \subseteq links
    /\ {Target(plan[i]) : i \in 1..Len(plan)} = {1, 2, 3}

----------------------------------------------------------------------------
(* Execution *)

FailureEvents == {"spawn_failed", "exit_failed"}

\* The position in the plan of the unit of a package.
PlanPosition(pkg) == CHOOSE k \in 1..Len(plan) : Target(plan[k]) = pkg

\* C9: a step that fails to spawn or exits with a failure is the last thing
\* asked of the process runner, in both modes: no child is left or spawned
\* afterwards, and the call has returned exactly one error, which names the
\* binary and the package of the unit whose step failed.
C9_FailFast ==
    /\ \A i \in 1..Len(log) :
          log[i].ev \in FailureEvents =>
             /\ i = Len(log)
             /\ live = {}
             /\ pc = "done"
             /\ result.status = "err"
             /\ Len(result.errors) = 1
             /\ result.errors[1].kind = "ProcessFailure"
             /\ result.errors[1].binary = log[i].child.bin
             /\ result.errors[1].package = log[i].child.package
             /\ result.errors[1].step = log[i].child.step
             /\ log[i].child.package = Target(plan[idx])
             /\ log[i].child.bin = Invocation(plan[idx]).name
             /\ \A j \in 1..Len(log) : PlanPosition(log[j].child.package) <= idx
    /\ (result.status = "err" /\ result.errors[1].kind = "ProcessFailure") =>
          (log # <<>> /\ Last(log).ev \in FailureEvents)
    /\ result.status = "ok" => \A i \in 1..Len(log) : log[i].ev \notin FailureEvents

\* The compile step of the second unit of a plan of three has failed during
\* a verification.
C9_Witness ==
    /\ mode = "verify"
    /\ Len(plan) = 3
    /\ idx = 2
    /\ log # <<>>
    /\ Last(log).ev = "exit_failed"
    /\ Last(log).child.step = "compile"

\* C10: at most one child is live; a run step is asked for right after the
\* compile step of the same unit has exited successfully; the compile step of
\* the first unit of the plan is the first thing asked for, and the compile
\* step of any other unit is asked for right after the run step of the unit
\* before it in the plan has exited successfully.
C10_Sequential ==
    /\ Cardinality(live) <= 1
    /\ live # {} => (log # <<>> /\ Last(log).ev = "spawn" /\ live = {Last(log).child})
    /\ \A i \in 1..Len(log) :
          log[i].ev \in {"spawn", "spawn_failed"} =>
             LET c == log[i].child
                 k == PlanPosition(c.package)
             IN IF c.step = "run"
                THEN /\ i > 1
                     /\ log[i - 1].ev = "exit_ok"
                     /\ log[i - 1].child.step = "compile"
                     /\ log[i - 1].child.package = c.package
                ELSE IF k = 1 THEN i = 1
                ELSE /\ i > 1
                     /\ log[i - 1].ev = "exit_ok"
                     /\ log[i - 1].child.step = "run"
                     /\ log[i - 1].child.package = Target(plan[k - 1])

\* The run step of the third unit of a plan is live.
C10_Witness ==
    /\ Len(plan) = 3
    /\ idx = 3
    /\ live # {}
    /\ \E c \in live : c.step = "run"

----------------------------------------------------------------------------
(* The command line and the shell *)

\* cargo px has exited.
Exited == pc = "exited"

\* The events of the generators and verifiers, and those of the delegated
\* command.
UnitEvents == {i \in 1..Len(log) : log[i].child.role # "cargo"}

DelegateEvents == {i \in 1..Len(log) : log[i].child.role = "cargo"}

TypeOK ==
    /\ exit_code \in {NoExit, PanicExitCode} \cup (0..MaxExitCode)
    /\ Cardinality(live) <= 1

\* The plan positions of the units that have no verifier.
WithoutVerifier == {i \in 1..Len(plan) : plan[i].verifier = NoBinary}

\* C11: in a verification, the loop over the plan never goes past a unit that
\* has no verifier and spawns nothing for it; verify does not return Ok and
\* cargo px does not exit with 0; once the loop has reached the unit, verify
\* has returned one error, which names the package of the unit.
C11_MissingVerifierIsAnError ==
    (mode = "verify" /\ Planned) =>
       \A k \in WithoutVerifier :
          /\ idx <= k
          /\ \A i \in UnitEvents : log[i].child.package # Target(plan[k])
          /\ result.status # "ok"
          /\ exit_code # 0
          /\ Exited => exit_code = 1
          /\ (idx = k /\ pc \in {"done", "exited"}) =>
                /\ result.status = "err"
                /\ result.errors = <<MissingVerifierError(plan[k])>>
                /\ result.errors[1].package = Target(plan[k])

\* cargo px verify-freshness has exited with 1: the first unit of the plan
\* was verified, the second has no verifier.
C11_Witness ==
    /\ mode = "verify"
    /\ Exited
    /\ exit_code = 1
    /\ Len(plan) >= 2
    /\ idx = 2
    /\ plan[1].verifier # NoBinary
    /\ plan[2].verifier = NoBinary
    /\ result.errors = <<MissingVerifierError(plan[2])>>
    /\ Len(log) = 4

\* The children that were spawned, or that could not be.
Spawns == {i \in 1..Len(log) : log[i].ev \in {"spawn", "spawn_failed"}}

\* C12: every run step of a generator or a verifier is spawned with
\* CARGO_PX_WORKSPACE_ROOT_DIR set to the real path of the workspace root
\* and CARGO_PX_GENERATED_PKG_MANIFEST_PATH set to the manifest path of the
\* package of its unit, which is not that of the package of the binary; the
\* run steps of two units are given different manifest paths.
C12_RunEnvironment ==
    \A i \in UnitEvents \cap Spawns :
       LET c == log[i].child
       IN c.step = "run" =>
             /\ c.env["CARGO_PX_WORKSPACE_ROOT_DIR"] = [root |-> "/ws", dir |-> <<>>, file |-> ""]
             /\ c.env["CARGO_PX_GENERATED_PKG_MANIFEST_PATH"] =
                   [root |-> workspace_root, dir |-> pkg_path(c.package), file |-> "Cargo.toml"]
             /\ c.env["CARGO_PX_GENERATED_PKG_MANIFEST_PATH"] #
                   [root |-> workspace_root, dir |-> pkg_path(c.bin_package), file |-> "Cargo.toml"]
             /\ \E k \in 1..Len(plan) : c.package = Target(plan[k])
             /\ \A j \in UnitEvents \cap Spawns :
                   (log[j].child.step = "run" /\ log[j].child.package # c.package) =>
                      log[j].child.env["CARGO_PX_GENERATED_PKG_MANIFEST_PATH"] #
                         c.env["CARGO_PX_GENERATED_PKG_MANIFEST_PATH"]

\* The generators of two units have been run in a workspace whose root is
\* reported through a symbolic link.
C12_Witness ==
    /\ workspace_root = "/link"
    /\ mode = "codegen"
    /\ Cardinality({i \in UnitEvents \cap Spawns : log[i].child.step = "run"}) = 2

\* The first forwarded argument, "" when there is none.
cargo_command == IF forwarded_args = <<>> THEN "" ELSE forwarded_args[1].text

\* Every unit of the plan has been compiled and run successfully.
PipelineCompleted ==
    /\ Planned
    /\ \A k \in 1..Len(plan) :
          \E i \in UnitEvents :
             /\ log[i].ev = "exit_ok"
             /\ log[i].child.step = "run"
             /\ log[i].child.package = Target(plan[k])

\* C13: generation is called exactly when the first forwarded argument is
\* one of the twelve verbs, and then cargo is invoked only after generation
\* has returned Ok, every unit of the plan compiled and run; for any other
\* verb but verify-freshness nothing is extracted, compiled or run; cargo is
\* always given the forwarded arguments as they are.
C13_CodegenVerbs ==
    LET verbs == {"build", "b", "test", "t", "check", "c", "run", "r", "doc", "d",
                  "bench", "publish"}
    IN /\ pc # "main" => (mode = "codegen" <=> cargo_command \in verbs)
       /\ (cargo_command \in verbs /\ DelegateEvents # {}) =>
             /\ result.status = "ok"
             /\ PipelineCompleted
             /\ \A i \in UnitEvents, j \in DelegateEvents : i < j
       /\ cargo_command \notin (verbs \cup {"verify-freshness"}) =>
             /\ UnitEvents = {}
             /\ codegen_units = <<>>
             /\ plan = <<>>
             /\ result = NoResult
             /\ Exited => DelegateEvents # {}
       /\ \A j \in DelegateEvents : log[j].child.args = forwarded_args

\* cargo px b has run the generators of three units, then cargo b.
C13_Witness ==
    /\ cargo_command = "b"
    /\ Len(plan) = 3
    /\ PipelineCompleted
    /\ DelegateEvents # {}
    /\ Exited
    /\ exit_code = 0

\* C14: cargo px verify-freshness calls verify, not codegen: no generator is
\* compiled or run, cargo is never invoked, and the exit code is 0 when the
\* verifier of every unit of the workspace has been compiled and run
\* successfully, 1 otherwise.
C14_VerifyFreshness ==
    cargo_command = "verify-freshness" =>
       /\ mode \in {"none", "verify"}
       /\ \A i \in 1..Len(log) : log[i].child.role = "verifier"
       /\ DelegateEvents = {}
       /\ pc \notin {"delegate", "delegating"}
       /\ Exited =>
             exit_code =
                IF /\ PipelineCompleted
                   /\ {Target(plan[k]) : k \in 1..Len(plan)} =
                         {p \in members : manifest[p].kind = "px"}
                THEN 0 ELSE 1

\* cargo px verify-freshness has verified two units and exited with 0.
C14_Witness ==
    /\ cargo_command = "verify-freshness"
    /\ Exited
    /\ exit_code = 0
    /\ Len(plan) = 2
    /\ Len(log) = 8

\* C15: when generation fails cargo is never invoked and the exit code is 1;
\* when it does not, and for the verbs that need no generation, the exit
\* code is 1 if cargo cannot be spawned or is terminated without an exit
\* code, and the exit code of cargo otherwise.
C15_ExitStatus ==
    /\ (mode = "codegen" /\ result.status = "err") =>
          /\ DelegateEvents = {}
          /\ pc \notin {"delegate", "delegating"}
          /\ Exited => exit_code = 1
    /\ (Exited /\ cargo_command # "verify-freshness" /\ result.status # "err") =>
          /\ DelegateEvents # {}
          /\ LET last == Last(log)
             IN /\ last.child.role = "cargo"
                /\ last.ev = "spawn_failed" => exit_code = 1
                /\ last.ev # "spawn_failed" =>
                      /\ last.ev \in {"exit_ok", "exit_failed"}
                      /\ last.status = Killed => exit_code = 1
                      /\ last.status # Killed => exit_code = last.status
                      /\ last.ev = "exit_ok" <=> exit_code = 0
    /\ ~Exited <=> exit_code = NoExit

\* cargo px build has generated two units, and cargo build has exited with 2.
C15_Witness ==
    /\ mode = "codegen"
    /\ Len(plan) = 2
    /\ PipelineCompleted
    /\ Exited
    /\ exit_code = 2

\* C16: with --quiet or -q among the forwarded arguments the shell prints no
\* status and every compile and run command of a generator or verifier
\* carries --quiet; with neither, none of them does.
C16_Quiet ==
    LET quiet == \E i \in 1..Len(forwarded_args) :
                    forwarded_args[i].text = "--quiet" \/ forwarded_args[i].text = "-q"
    IN /\ quiet =>
             /\ shown = <<>>
             /\ \A i \in UnitEvents : log[i].child.quiet
       /\ ~quiet => \A i \in UnitEvents : ~log[i].child.quiet

\* cargo px build -q has generated a unit.
C16_Witness ==
    /\ \E i \in 1..Len(forwarded_args) : forwarded_args[i].text = "-q"
    /\ cargo_command = "build"
    /\ PipelineCompleted
    /\ Len(plan) >= 1
    /\ Exited

----------------------------------------------------------------------------
(* Configuration errors *)

\* A member other than p defines a binary called name.
DefinedElsewhere(p, name) == \E m \in members \ {p} : Bin(name) \in build_targets[m]

GeneratorBinaryMissing(p) ==
    manifest[p].kind = "px" /\ ~DefinedElsewhere(p, manifest[p].generator_name)

VerifierBinaryMissing(p) ==
    /\ manifest[p].kind = "px"
    /\ manifest[p].verifier_name # 0
    /\ ~DefinedElsewhere(p, manifest[p].verifier_name)

Misconfigured ==
    {p \in members : manifest[p].kind = "malformed" \/ GeneratorBinaryMissing(p) \/ VerifierBinaryMissing(p)}

\* C17: once the units have been extracted, when some member is
\* misconfigured the call has returned one error for each misconfigured
\* member, in the order of the members, whatever came before it: a
\* deserialization error, a missing generator binary or a missing verifier
\* binary; no unit is returned, nothing is planned and nothing is spawned.
\* When no member is misconfigured no error is returned.
C17_ErrorsAggregated ==
    pc # "start" =>
       IF Misconfigured = {}
       THEN result.status = "err" => result.errors[1].kind \notin {"MalformedConfig", "MissingBinary"}
       ELSE /\ pc = "done"
            /\ result.status = "err"
            /\ Len(result.errors) = Cardinality(Misconfigured)
            /\ \A i \in 1..Len(result.errors) :
                  LET e == result.errors[i]
                      p == Ascending(Misconfigured)[i]
                  IN /\ e.package = p
                     /\ e.kind = IF manifest[p].kind = "malformed" THEN "MalformedConfig"
                                 ELSE "MissingBinary"
                     /\ e.kind = "MissingBinary" =>
                           e.role = IF GeneratorBinaryMissing(p) THEN "generator" ELSE "verifier"
            /\ codegen_units = <<>>
            /\ plan = <<>>
            /\ log = <<>>
            /\ live = {}

\* Three members are misconfigured, each in its own way, and a fourth error
\* free; the three errors have been returned.
C17_Witness ==
    /\ pc = "done"
    /\ Len(result.errors) = 3
    /\ result.errors[1].kind = "MalformedConfig"
    /\ result.errors[2].kind = "MissingBinary" /\ result.errors[2].role = "generator"
    /\ result.errors[3].kind = "MissingBinary" /\ result.errors[3].role = "verifier"

----------------------------------------------------------------------------
(* The scope of an invocation *)

\* determine_targets has returned.
PastTargets == pc \notin {"start", "targets"} /\ extract_codegen_units.errors = <<>>

\* Every unit of the workspace is retained.
AllRetained == codegen_units = extract_codegen_units.units

\* The retain of compute_filtered_codegen_plan has been made, and nothing
\* has emptied codegen_units since.
JustRetained == pc = "graph"

\* C18: when -p flags are given and one of their values is not the name of a
\* member, determine_targets returns no target, whatever the other values,
\* and every unit of the workspace is retained.
C18_UnresolvedScopeIsEverything ==
    (/\ package_specs # <<>>
     /\ \E i \in 1..Len(package_specs) : package_specs[i] \notin members
     /\ PastTargets) =>
        /\ targets = <<>>
        /\ JustRetained => AllRetained

\* -p 2 -p <a package that is not a member>: the unit of member 1, on which
\* member 2 does not depend, is retained.
C18_Witness ==
    /\ package_specs = <<2, NPkgs>>
    /\ JustRetained
    /\ \A l \in links : l[1] # 2
    /\ \E i \in 1..Len(codegen_units) : Target(codegen_units[i]) = 1

\* The members whose directory is the working directory or one above it.
Ancestors ==
    {p \in members :
        /\ Len(pkg_path(p)) <= Len(cwd)
        /\ \A i \in 1..Len(pkg_path(p)) : pkg_path(p)[i] = cwd[i]}

\* C19: without -p flags the only target is the member whose directory is
\* the working directory or above it and the closest to it, the one that
\* leaves the fewest components of the working directory; when no member's
\* directory is, there is no target and every unit is retained.
C19_ImplicitTarget ==
    (package_specs = <<>> /\ PastTargets) =>
        IF Ancestors = {}
        THEN /\ targets = <<>>
             /\ JustRetained => AllRetained
        ELSE /\ Len(targets) = 1
             /\ targets[1] \in Ancestors
             /\ \A q \in Ancestors :
                   Len(cwd) - Len(pkg_path(targets[1])) <= Len(cwd) - Len(pkg_path(q))
             /\ \A q \in Ancestors \ {targets[1]} :
                   Len(pkg_path(q)) < Len(pkg_path(targets[1]))

\* From a directory below that of member 2, which lies in the directory of
\* member 1, the target is member 2.
C19_Witness ==
    /\ package_specs = <<>>
    /\ cwd = <<1, 2, 0>>
    /\ PastTargets
    /\ Ancestors = {1, 2}
    /\ targets = <<2>>

----------------------------------------------------------------------------
(* The nodes of the augmented package graph *)

\* AugmentedPackageGraph::new has added the nodes and the edges.
GraphBuilt == pc \notin {"main", "metadata", "start", "targets", "retain", "graph"}
                /\ extract_codegen_units.errors = <<>>

\* The packages that depend on a package of S through links that are not
\* dev-only, and those of S.
RECURSIVE DependentsNonDev(_, _)
DependentsNonDev(S, n) ==
    IF n = 0 THEN S
    ELSE DependentsNonDev(S \cup {l[1] : l \in {k \in links : k[2] \in S /\ ~k[3]}}, n - 1)

\* C20: the nodes of the augmented graph are the members and the packages
\* that depend on a member, directly or not, through links that are not
\* dev-only; each has one node, and no other package has a node.
C20_NodeSet ==
    GraphBuilt =>
       /\ Range(dep_graph.nodes) = DependentsNonDev(members, Cardinality(packages))
       /\ Len(dep_graph.nodes) = Cardinality(Range(dep_graph.nodes))
       /\ \A p \in packages \ DependentsNonDev(members, Cardinality(packages)) :
             NodeOf(dep_graph.nodes, p) = 0

\* A package that is no member depends on member 1 and has a node; member 1
\* depends on a package that is no member, which has none.
C20_Witness ==
    /\ GraphBuilt
    /\ links = {<<3, 1, FALSE>>, <<1, 4, FALSE>>}
    /\ 3 \in Range(dep_graph.nodes)
    /\ 4 \notin Range(dep_graph.nodes)

----------------------------------------------------------------------------
(* Dev-only links *)

NonDevLinks == {l \in links : ~l[3]}

\* The reverse links of a package in a workspace whose links are L.
ReverseLinksIn(L, pkg_id) ==
    LET froms == {l[1] : l \in {k \in L : k[2] = pkg_id}}
        link(f) == CHOOSE l \in L : l[1] = f /\ l[2] = pkg_id
    IN [i \in 1..Cardinality(froms) |-> link(Ascending(froms)[i])]

\* The while loop of AugmentedPackageGraph::new in a workspace whose links
\* are L.
RECURSIVE VisitPackagesIn(_, _)
VisitPackagesIn(L, st) ==
    IF st.to_be_visited = <<>> THEN st
    ELSE LET pkg_id == Last(st.to_be_visited)
             popped == [st EXCEPT !.to_be_visited = Front(st.to_be_visited)]
         IN IF pkg_id \in st.processed THEN VisitPackagesIn(L, popped)
            ELSE LET nodes1 == EnsureNode(st.nodes, pkg_id)
                     node_id == NodeOf(nodes1, pkg_id)
                     st1 == VisitLinks([popped EXCEPT !.nodes = nodes1], node_id,
                                       ReverseLinksIn(L, pkg_id))
                 IN VisitPackagesIn(L, [st1 EXCEPT !.processed = @ \cup {pkg_id}])

\* The augmented graph of the units in a workspace whose links are L.
BuildDepGraphIn(L, units) ==
    LET st == VisitPackagesIn(L, [nodes |-> <<>>, edges |-> <<>>,
                                  to_be_visited |-> MemberSeq, processed |-> {}])
    IN [nodes |-> st.nodes, edges |-> AddGeneratedBy(st.nodes, st.edges, units)]

\* The units that are retained for the targets in a workspace whose links
\* are L.
FilterUnitsIn(L, units, tgts) ==
    IF tgts = <<>> THEN units
    ELSE SelectSeq(units, LAMBDA u :
            \E i \in 1..Len(tgts) :
               Target(u) \in ReachVia({<<l[1], l[2]>> : l \in L}, {tgts[i]},
                                      Cardinality(packages)))

\* A DependsOn edge joins two packages only when the first has a link to the
\* second that is not dev-only, and a package that is no member has a node
\* only when it has such a link to a package that has a node.
DevOnlyLinksAddNothing ==
    /\ \A i \in 1..Len(dep_graph.edges) :
          LET e == dep_graph.edges[i]
          IN e.kind = "DependsOn" =>
                <<dep_graph.nodes[e.from], dep_graph.nodes[e.to], FALSE>> \in links
    /\ \A p \in Range(dep_graph.nodes) \ members :
          \E q \in Range(dep_graph.nodes) : <<p, q, FALSE>> \in links

\* C21, as claimed: dev-only links add no edge and no node, and the cycles
\* and the plan of the invocation are those of the same invocation in the
\* workspace without its dev-only links.
C21_DevLinksChangeNothing ==
    (Extracted /\ PastGate) =>
       LET without == BuildDepGraphIn(NonDevLinks,
                         FilterUnitsIn(NonDevLinks, extract_codegen_units.units, targets))
       IN /\ DevOnlyLinksAddNothing
          /\ cycles = find_cycles(without)
          /\ Planned => plan = codegen_plan(without)

\* C21, amended: dev-only links add no edge and no node, and for the units
\* that are retained the graph, and so its cycles and its plan, are those of
\* the workspace without its dev-only links.
C21_DevLinksLeaveTheGraphAlone ==
    (Extracted /\ PastGate) =>
       LET without == BuildDepGraphIn(NonDevLinks, codegen_units)
       IN /\ DevOnlyLinksAddNothing
          /\ dep_graph = without
          /\ cycles = find_cycles(without)
          /\ Planned => plan = codegen_plan(without)

\* A plan has been made in a workspace where a package that is no target
\* has a dev-only link to the package of a planned unit.
C21_Witness ==
    /\ Planned
    /\ Len(plan) >= 1
    /\ \E l \in links : l[3] /\ l[2] = Target(plan[1]) /\ l[1] \notin Scope
    /\ \E l \in links : ~l[3]

----------------------------------------------------------------------------
(* Generator and verifier binaries *)

NNames == 2

\* What a member may define: nothing, a binary, a target of another kind,
\* or two targets.
TargetChoices ==
    {{}, {Bin(1)}, {Lib(1)}, {Bin(2)}, {Bin(1), Bin(2)}, {Lib(1), Bin(2)}}

\* cargo px build on workspaces without links whose members are the
\* packages below NPkgs: member 1 names a generator and may name a verifier,
\* member 2 may name a generator; the members define any of TargetChoices
\* and the package that is no member may define both binaries.
InitTargets ==
    /\ packages = AllPkgs
    /\ members = AllPkgs \ {NPkgs}
    /\ build_targets \in [AllPkgs -> TargetChoices \cup {{Bin(1), Bin(2)}}]
    /\ \A p \in members : build_targets[p] \in TargetChoices
    /\ build_targets[NPkgs] \in {{}, {Bin(1), Bin(2)}}
    /\ links = {}
    /\ \E g \in 1..NNames, v \in 0..NNames, c \in {NoConfig, Px(1, 0)} :
          manifest = [p \in AllPkgs |-> IF p = 1 THEN Px(g, v)
                                        ELSE IF p = 2 THEN c ELSE NoConfig]
    /\ package_specs = <<>>
    /\ cwd = <<>>
    /\ mode = "codegen"
    /\ forwarded_args = <<Arg("build", 0)>>
    /\ workspace_root = "/ws"
    /\ Fresh

InitTargetsOrExec == InitTargets \/ InitExec

SpecTargets == InitTargetsOrExec /\ [][Next]_vars

\* The binary of a unit of package own is a binary target with that name of
\* a member other than own.
DefinedByAnotherMember(binary, own) ==
    /\ binary.package_id \in members \ {own}
    /\ Bin(binary.name) \in build_targets[binary.package_id]

\* The errors of the invocation hold a configuration error for that role
\* that names the binary and the package.
NamedMissing(role, name, p) ==
    /\ result.status = "err"
    /\ \E i \in 1..Len(result.errors) :
          LET e == result.errors[i]
          IN e.kind = "MissingBinary" /\ e.role = role /\ e.binary = name /\ e.package = p

\* C22: once the units have been extracted, the generator of every unit is
\* the binary its manifest names, a target of kind binary of a member other
\* than the unit's package, and so is its verifier when it has one; a member
\* whose manifest names a generator, or failing that a verifier, that no
\* other member defines as a binary has a configuration error naming the
\* binary and the member.
C22_BinariesOfOtherMembers ==
    pc # "start" =>
       /\ \A i \in 1..Len(codegen_units) :
             LET u == codegen_units[i]
                 cfg == manifest[Target(u)]
             IN /\ cfg.kind = "px"
                /\ u.generator.name = cfg.generator_name
                /\ DefinedByAnotherMember(u.generator, Target(u))
                /\ u.verifier.name = cfg.verifier_name
                /\ u.verifier # NoBinary => DefinedByAnotherMember(u.verifier, Target(u))
       /\ \A p \in members :
             IF GeneratorBinaryMissing(p)
             THEN NamedMissing("generator", manifest[p].generator_name, p)
             ELSE VerifierBinaryMissing(p) =>
                     NamedMissing("verifier", manifest[p].verifier_name, p)

\* A unit has been constructed with a generator and a verifier, in a
\* workspace where the unit's own package defines the generator binary too,
\* another member has a target of another kind with the generator's name,
\* and the package that is no member defines both binaries.
C22_Witness ==
    /\ pc # "start"
    /\ Len(codegen_units) >= 1
    /\ LET u == codegen_units[1]
       IN /\ u.verifier # NoBinary
          /\ u.verifier.name # u.generator.name
          /\ Bin(u.generator.name) \in build_targets[Target(u)]
          /\ \E m \in members \ {Target(u)} : Lib(u.generator.name) \in build_targets[m]
          /\ \E q \in packages \ members : Bin(u.generator.name) \in build_targets[q]

----------------------------------------------------------------------------
(* Generator prerequisites under a scope *)

\* Member 1 may name the binary of member 3 as generator and member 2 the
\* binary of member NPkgs.
TwoHostChoices ==
    {gen \in [AllPkgs -> {0, 3, NPkgs}] :
        /\ gen[1] \in {0, 3}
        /\ gen[2] \in {0, NPkgs}
        /\ \A p \in AllPkgs \ {1, 2} : gen[p] = 0}

\* cargo px build with -p flags on workspaces with at most MaxLinks non-dev
\* links and two generator packages.
InitTwoHosts ==
    /\ Workspace
    /\ links \in NormalLinkSets
    /\ \E gen \in TwoHostChoices : manifest = ManifestOf(gen, NoVerifiers)
    /\ package_specs \in SpecLists
    /\ cwd = <<>>
    /\ mode = "codegen"
    /\ forwarded_args = <<Arg("build", 0)>> \o PackageArgs(package_specs)
    /\ workspace_root = "/ws"
    /\ Fresh

InitTwoHostsOrExec == InitTwoHosts \/ InitExec

SpecTwoHosts == InitTwoHostsOrExec /\ [][Next]_vars

\* C23: once a plan has been made in a workspace whose declared units form
\* no cycle, every other declared unit whose package the generator package
\* of a planned unit reaches, along the non-dev links and the generation
\* requirements of the declared units, is in the plan and comes earlier than
\* that unit, whatever the scope.
C23_PlanClosedUnderPrerequisites ==
    (Extracted /\ Planned) =>
       LET declared == extract_codegen_units.units
           g == BuildDepGraph(declared)
       IN GraphAcyclic(g) =>
             \A j \in 1..Len(plan), i \in 1..Len(declared) :
                (declared[i] # plan[j]
                 /\ Target(declared[i]) \in PkgReach(g, GeneratorPkg(plan[j])))
                   => \E k \in 1..(j - 1) : plan[k] = declared[i]

\* A plan made under a scope that holds a unit and, before it, the unit of a
\* package that the generator package of the first depends on.
C23_Witness ==
    /\ Planned
    /\ targets # <<>>
    /\ Len(plan) = 2
    /\ <<GeneratorPkg(plan[2]), Target(plan[1]), FALSE>> \in links

----------------------------------------------------------------------------
(* The cycles that are reported *)

\* The node that follows position i of a cycle, the first node following
\* the last.
NextInCycle(cycle, i) == cycle[(i % Len(cycle)) + 1]

\* No node occurs twice and every node has an edge to the next one.
ElementaryCycle(g, cycle) ==
    /\ cycle # <<>>
    /\ \A i, j \in 1..Len(cycle) : cycle[i] = cycle[j] => i = j
    /\ \A i \in 1..Len(cycle) : <<cycle[i], NextInCycle(cycle, i)>> \in EdgePairs(g)

\* C24: every cycle that find_cycles returns is an elementary cycle of the
\* graph; the gate returns one error for each cycle, in the same order,
\* whose chain has one line for each node of the cycle, and every line
\* relates the node before to the node along an edge that the graph has (no
\* lookup of an edge fails).
C24_GenuineCycles ==
    pc # "gate" =>
       /\ \A c \in 1..Len(cycles) : ElementaryCycle(dep_graph, cycles[c])
       /\ cycles # <<>> => Len(result.errors) = Len(cycles)
       /\ \A c \in 1..Len(cycles) :
             LET chain == result.errors[c].chain
                 cycle == cycles[c]
             IN /\ result.errors[c].kind = "CyclicDependency"
                /\ Len(chain) = Len(cycle)
                /\ \A i \in 1..Len(chain) :
                      /\ chain[i][2] # "panic"
                      /\ chain[i][3] = dep_graph.nodes[cycle[i]]
                      /\ NextInCycle(cycle, i) = cycle[1] =>
                            chain[1][1] = dep_graph.nodes[cycle[i]]
                      /\ i > 1 => chain[i][1] = dep_graph.nodes[cycle[i - 1]]

\* Several cycles have been returned, one through three nodes and one that
\* is an edge from a node to itself.
C24_Witness ==
    /\ pc # "gate"
    /\ Len(cycles) >= 2
    /\ \E c \in 1..Len(cycles) : Len(cycles[c]) = 3
    /\ \E c \in 1..Len(cycles) : Len(cycles[c]) = 1

----------------------------------------------------------------------------
(* Strongly connected components *)

\* The nodes that node n reaches along the edges of g, n included.
NodeReach(g, n) == ReachVia(EdgePairs(g), {n}, Len(g.nodes))

\* The strongly connected component of node n.
Component(g, n) == {m \in NodeReach(g, n) : n \in NodeReach(g, m)}

\* The component holds a cycle: it has several nodes, or its node has an
\* edge to itself.
HoldsCycle(g, n) ==
    \/ Cardinality(Component(g, n)) > 1
    \/ <<n, n>> \in EdgePairs(g)

\* C25: for every strongly connected component that holds a cycle, some
\* cycle that find_cycles returns lies within the component.
C25_EveryCyclicComponentReported ==
    pc # "gate" =>
       \A n \in 1..Len(dep_graph.nodes) :
          HoldsCycle(dep_graph, n) =>
             \E c \in 1..Len(cycles) : Range(cycles[c]) \subseteq Component(dep_graph, n)

\* The graph has two components that hold a cycle, one of several nodes,
\* and the first node is in neither.
C25_Witness ==
    /\ pc # "gate"
    /\ ~HoldsCycle(dep_graph, 1)
    /\ \E n, m \in 1..Len(dep_graph.nodes) :
          /\ Cardinality(Component(dep_graph, n)) > 1
          /\ HoldsCycle(dep_graph, m)
          /\ m \notin Component(dep_graph, n)

----------------------------------------------------------------------------
(* Termination and the source assertion *)

\* The invocation leaves position from for a position of to.
Proceeds(from, to) == pc = from /\ pc' \in to

\* The planning steps are taken when they can be: compute_filtered_codegen_plan
\* runs them one after the other on a single thread, so the invocation does
\* not stay for ever before the construction of the graph, before the gate
\* or before the scheduling.
SpecFair ==
    /\ Init
    /\ [][Next]_vars
    /\ WF_pc(Proceeds("graph", {"gate"}))
    /\ WF_pc(Proceeds("gate", {"plan", "done"}))
    /\ WF_pc(Proceeds("plan", {"loop", "done"}))

NoUnitDeclared == \A p \in members : manifest[p].kind = "none"

\* The gate has been passed: no cycle was found.
GatePassed == pc = "plan" \/ Planned

SourceAssertionHolds ==
    /\ result.status # "panic"
    /\ GatePassed => Sources(dep_graph) # <<>>
    /\ (NoUnitDeclared /\ PastGate) =>
          /\ GatePassed
          /\ plan = <<>>
          /\ log = <<>>
          /\ result.status # "err"

\* C26: the construction of the graph, the cycle detection and the
\* scheduling come to an end: an invocation that is about to build the graph
\* gets to the execution of its plan or to its end.  Whenever the gate has
\* been passed the graph has a source and the assertion does not fail; when
\* no package declares a unit the gate is passed, the plan is empty and
\* nothing is compiled or run.
C26_TerminatesWithSources ==
    /\ []SourceAssertionHolds
    /\ (pc = "graph") ~> (pc \in {"loop", "done"})

\* A workspace with links where no package declares a unit: the plan has
\* been made and the invocation has ended well.
C26_Witness ==
    /\ NoUnitDeclared
    /\ links # {}
    /\ Planned
    /\ pc = "done"
    /\ result.status = "ok"

----------------------------------------------------------------------------
(* No retry and no rollback *)

SpawnEvents == {"spawn", "spawn_failed"}

\* The positions of the log where that step of the unit of that package was
\* asked for.
Attempts(pkg, step) ==
    {i \in 1..Len(log) :
        /\ log[i].ev \in SpawnEvents
        /\ log[i].child.package = pkg
        /\ log[i].child.step = step}

\* C27: each step of each unit is asked of the process runner at most once;
\* after a step that failed to spawn or exited with a failure nothing is
\* asked for any more; and every child is the compile step or the run step
\* of a unit of the plan, so that no other action makes up for a failure.
C27_NoRetryNoRollback ==
    /\ \A pkg \in packages, step \in {"compile", "run"} :
          Cardinality(Attempts(pkg, step)) <= 1
    /\ \A i \in 1..Len(log) : log[i].ev \in FailureEvents => i = Len(log)
    /\ \A i \in 1..Len(log) :
          /\ log[i].ev \in SpawnEvents \cup {"exit_ok", "exit_failed"}
          /\ \E k \in 1..Len(plan) : log[i].child = Child(plan[k], log[i].child.step)
    /\ (pc = "done" /\ result.status = "err") => live = {}

\* The run step of the second unit of a plan has failed to spawn, after the
\* steps of the first unit and the compile step of the second were done.
C27_Witness ==
    /\ pc = "done"
    /\ idx = 2
    /\ Len(log) = 7
    /\ Last(log).ev = "spawn_failed"
    /\ Last(log).child.step = "run"
    /\ Cardinality(Attempts(Target(plan[1]), "run")) = 1

----------------------------------------------------------------------------
(* Generation does not verify *)

\* The unit of the plan whose package is pkg.
PlannedUnit(pkg) == plan[PlanPosition(pkg)]

\* C28: in generation mode every child that is compiled or run is the
\* generator binary of its unit, taken from the generator's package, also
\* when the unit declares a verifier, and no error reports a missing
\* verifier.
C28_GenerationRunsNoVerifier ==
    mode = "codegen" =>
       /\ \A i \in 1..Len(log) :
             LET c == log[i].child
                 u == PlannedUnit(c.package)
             IN /\ c.role = "generator"
                /\ c.bin = u.generator.name
                /\ c.bin_package = u.generator.package_id
       /\ \A c \in live : c.bin = PlannedUnit(c.package).generator.name
       /\ \A i \in 1..Len(result.errors) : result.errors[i].kind # "MissingVerifier"

\* A generation has ended well; it has run the generator of a unit that
\* declares a verifier with another name, defined by another package.
C28_Witness ==
    /\ mode = "codegen"
    /\ pc = "done"
    /\ result.status = "ok"
    /\ \E i \in 1..Len(log) :
          LET u == PlannedUnit(log[i].child.package)
          IN /\ log[i].ev = "exit_ok"
             /\ log[i].child.step = "run"
             /\ u.verifier # NoBinary
             /\ u.verifier.name # u.generator.name
             /\ u.verifier.package_id # u.generator.package_id

----------------------------------------------------------------------------
(* The missing verifier is found on the way *)

\* The step of the unit of that package has exited successfully.
StepDone(pkg, step) ==
    \E i \in 1..Len(log) :
       /\ log[i].ev = "exit_ok"
       /\ log[i].child.package = pkg
       /\ log[i].child.step = step
       /\ log[i].child.bin = PlannedUnit(pkg).verifier.name

\* C29: when a verification has returned the error of a unit without
\* verifier, that unit is the first of the plan without one, the verifiers
\* of all the units before it have been compiled and run successfully, and
\* nothing has been spawned for that unit or for a unit after it.
C29_MissingVerifierFoundOnTheWay ==
    (result.status = "err" /\ result.errors[1].kind = "MissingVerifier") =>
       LET k == PlanPosition(result.errors[1].package)
       IN /\ mode = "verify"
          /\ plan[k].verifier = NoBinary
          /\ \A j \in 1..(k - 1) :
                /\ plan[j].verifier # NoBinary
                /\ StepDone(Target(plan[j]), "compile")
                /\ StepDone(Target(plan[j]), "run")
          /\ \A i \in 1..Len(log) : PlanPosition(log[i].child.package) < k
          /\ live = {}

\* The second unit of a plan of three has no verifier, the others have one,
\* and the error has been returned.
C29_Witness ==
    /\ pc = "done"
    /\ result.status = "err"
    /\ result.errors[1].kind = "MissingVerifier"
    /\ Len(plan) = 3
    /\ plan[1].verifier # NoBinary
    /\ plan[2].verifier = NoBinary
    /\ plan[3].verifier # NoBinary
    /\ log # <<>>

----------------------------------------------------------------------------
(* Verifiers and the graph *)

\* Member 1 names the binary of member 3 as generator and member 2 may do
\* so; each may name the binary of member NPkgs as verifier.
VerifiedChoices ==
    {m \in [AllPkgs -> {NoConfig, Px(3, 0), Px(3, NPkgs)}] :
        /\ m[1] # NoConfig
        /\ \A p \in AllPkgs \ {1, 2} : m[p] = NoConfig}

\* cargo px build and cargo px verify-freshness on workspaces with at most
\* MaxLinks non-dev links whose units may have a verifier.
InitVerifiers ==
    /\ Workspace
    /\ links \in NormalLinkSets
    /\ manifest \in VerifiedChoices
    /\ package_specs = <<>>
    /\ cwd = <<>>
    /\ mode \in {"codegen", "verify"}
    /\ forwarded_args = <<Arg(IF mode = "codegen" THEN "build" ELSE "verify-freshness", 0)>>
    /\ workspace_root = "/ws"
    /\ Fresh

InitVerifiersOrExec == InitVerifiers \/ InitExec

SpecVerifiers == InitVerifiersOrExec /\ [][Next]_vars

\* The units without their verifiers.
StripVerifiers(units) ==
    [i \in 1..Len(units) |-> [units[i] EXCEPT !.verifier = NoBinary]]

\* The nodes of a graph and the ends and the kind of its edges.
Shape(g) ==
    [nodes |-> g.nodes,
     edges |-> [i \in 1..Len(g.edges) |->
                  [from |-> g.edges[i].from, to |-> g.edges[i].to,
                   kind |-> g.edges[i].kind]]]

\* C30: the augmented graph has the nodes and the edges of the graph of the
\* same units without their verifiers, every IsGeneratedBy edge goes from
\* the package of its unit to the package of its generator, and the cycles
\* and the order of the plan are those of the graph without verifiers: a
\* verifier in a package that depends on the package of its unit makes no
\* cycle.
C30_VerifiersAddNoEdge ==
    GraphBuilt =>
       LET without == BuildDepGraph(StripVerifiers(codegen_units))
       IN /\ Shape(dep_graph) = Shape(without)
          /\ \A i \in 1..Len(dep_graph.edges) :
                LET e == dep_graph.edges[i]
                IN e.kind = "IsGeneratedBy" =>
                      /\ dep_graph.nodes[e.from] = Target(e.unit)
                      /\ dep_graph.nodes[e.to] = GeneratorPkg(e.unit)
          /\ PastGate => cycles = find_cycles(without)
          /\ (PastGate /\ GraphAcyclic(without)) => (cycles = <<>> /\ result.status # "panic")
          /\ Planned => StripVerifiers(plan) = codegen_plan(without)

\* A plan has been made for a unit whose verifier lives in a package, other
\* than the generator's, that has a non-dev link to the package of the unit.
C30_Witness ==
    /\ Planned
    /\ cycles = <<>>
    /\ \E j \in 1..Len(plan) :
          /\ plan[j].verifier # NoBinary
          /\ plan[j].verifier.package_id # GeneratorPkg(plan[j])
          /\ <<plan[j].verifier.package_id, Target(plan[j]), FALSE>> \in links

====
